---- MODULE Spec2Model ----
(***************************************************************************)
(* The notes parser of scripts/parse_notes.py (class JapaneseNotesParser)  *)
(* as a state machine: parse_file reads the input line by line, carrying   *)
(* current_year / current_date, collects provisional entries, and hands    *)
(* them once to deduplicate_entries / merge_entries, then assigns ids and  *)
(* statistics.                                                             *)
(*                                                                         *)
(* Strings are sequences of Unicode code points (naturals), so that the    *)
(* regular expressions, substring tests, lengths and string comparisons of *)
(* the code are computed and not assumed.  An optional value (Python None  *)
(* or a value) is None == <<>> or Some(v) == <<v>>.                        *)
(***************************************************************************)
EXTENDS Naturals, Sequences, FiniteSets

(***************************************************************************)
(* Bounds of the model.                                                    *)
(***************************************************************************)
\* Longest input file (number of lines) of specifications Spec and SpecMerge.
MaxLines == 4
\* Longest input file of specification SpecDup (three lines to draw from).
MaxDupLines == 5
\* Longest input file of specification SpecOrder, whose entries are merged in
\* every order.
MaxOrderLines == 4
\* Longest input file of specifications SpecEntry and SpecAnnotate (one
\* entry line at a time matters) and of specification SpecMain.
MaxEntryLines == 2
MaxAnnotateLines == 2
MaxMainLines == 3

\* Longest input file of specification SpecEnrich.
MaxEnrichLines == 2

\* Longest input file of specification SpecYear.
MaxYearLines == 3

\* Longest input file of specification SpecStable.
MaxStableLines == 4

\* Longest input file of specification SpecGroup.
MaxGroupLines == 3

(***************************************************************************)
(* Optional values.                                                        *)
(***************************************************************************)
None == <<>>
Some(v) == <<v>>
IsNone(o) == o = <<>>
Val(o) == o[1]

(***************************************************************************)
(* Characters and strings.                                                 *)
(***************************************************************************)
\* What \s of the re module and str.strip() treat as whitespace.
WhiteSpace ==
  (9 .. 13) \cup (28 .. 32) \cup {133, 160, 5760} \cup (8192 .. 8202)
    \cup {8232, 8233, 8239, 8287, 12288}

IsSpace(c) == c \in WhiteSpace

\* \d of the re module: the ASCII digits and the full-width digits (the decimal
\* digits of the other scripts do not occur in the catalogues).
IsDigit(c) == c \in (48 .. 57) \cup (65296 .. 65305)

\* int() of a single digit.
DigitValue(c) == IF c \in 48 .. 57 THEN c - 48 ELSE c - 65296

IsAsciiLetter(c) == c \in (65 .. 90) \cup (97 .. 122)

\* s[i..j], empty when j < i.
Slice(s, i, j) == IF j < i THEN <<>> ELSE SubSeq(s, i, j)

\* s[i:] with i 1-based.
From(s, i) == Slice(s, i, Len(s))

\* sub occurs in s at the 1-based position i.
MatchesAt(s, sub, i) ==
  /\ i >= 1
  /\ i + Len(sub) - 1 <= Len(s)
  /\ \A k \in 1 .. Len(sub) : s[i + k - 1] = sub[k]

\* Python's  sub in s.
Contains(s, sub) == \E i \in 1 .. (Len(s) + 1) : MatchesAt(s, sub, i)

\* The least element of a set of positions, 0 when it is empty.
Least(M) == IF M = {} THEN 0 ELSE CHOOSE i \in M : \A j \in M : i <= j

\* 1-based position of the first occurrence of sub in s, 0 if none (str.find).
Find(s, sub) == Least({i \in 1 .. (Len(s) + 1) : MatchesAt(s, sub, i)})

StartsWith(s, sub) == MatchesAt(s, sub, 1)

EndsWith(s, sub) == Len(sub) <= Len(s) /\ MatchesAt(s, sub, Len(s) - Len(sub) + 1)

\* str.lstrip(): drop the leading whitespace.
RECURSIVE LStrip(_)
LStrip(s) == IF s # <<>> /\ IsSpace(s[1]) THEN LStrip(Tail(s)) ELSE s

\* drop the trailing whitespace.
RECURSIVE RStrip(_)
RStrip(s) ==
  IF s # <<>> /\ IsSpace(s[Len(s)]) THEN RStrip(Slice(s, 1, Len(s) - 1)) ELSE s

\* str.strip().
Strip(s) == RStrip(LStrip(s))

\* str.lower() on the letters that occur in the tables and catalogues (A-Z).
Lower(s) == [i \in 1 .. Len(s) |-> IF s[i] \in 65 .. 90 THEN s[i] + 32 ELSE s[i]]

\* str.replace(c, ''): drop every occurrence of the characters of cs.
Remove(s, cs) == SelectSeq(s, LAMBDA c : c \notin cs)

\* Comparison of two strings as Python compares str values: by code point,
\* a proper prefix first.
RECURSIVE StrLess(_, _)
StrLess(a, b) ==
  IF b = <<>> THEN FALSE
  ELSE IF a = <<>> THEN TRUE
  ELSE IF a[1] # b[1] THEN a[1] < b[1]
  ELSE StrLess(Tail(a), Tail(b))

StrLeq(a, b) == a = b \/ StrLess(a, b)

\* Concatenation of the strings of a list (''.join).
RECURSIVE Join(_)
Join(parts) == IF parts = <<>> THEN <<>> ELSE Head(parts) \o Join(Tail(parts))

\* Elements of a list, as a set.
Range(s) == {s[i] : i \in 1 .. Len(s)}

\* f"{n:02d}" for 0 <= n <= 99 and f"{n:05d}" for 0 <= n <= 99999.
Format02d(n) == <<48 + (n \div 10), 48 + (n % 10)>>

Format05d(n) ==
  <<48 + ((n \div 10000) % 10), 48 + ((n \div 1000) % 10), 48 + ((n \div 100) % 10),
    48 + ((n \div 10) % 10), 48 + (n % 10)>>

(***************************************************************************)
(* The parser's lookup tables (JapaneseNotesParser.__init__).              *)
(***************************************************************************)
(* scenario_keywords: topic name -> keywords, in dict order. A keyword is a
   string, i.e. a sequence of Unicode code points. *)
scenario_keywords ==
  <<
    <<"restaurant", <<
        <<12524, 12473, 12488, 12521, 12531>>,  \* レストラン
        <<26009, 29702>>,  \* 料理
        <<39135, 22530>>,  \* 食堂
        <<27880, 25991>>,  \* 注文
        <<12513, 12491, 12517, 12540>>,  \* メニュー
        <<39135, 12409>>,  \* 食べ
        <<39154, 12415>>,  \* 飲み
        <<12372, 12399, 12435>>,  \* ごはん
        <<20250, 35336>>,  \* 会計
        <<12362, 12356, 12375, 12356>>,  \* おいしい
        <<23551, 21496>>,  \* 寿司
        <<12521, 12540, 12513, 12531>>,  \* ラーメン
        <<28988>>,  \* 焼
        <<20028>>,  \* 丼
        <<24321, 24403>>,  \* 弁当
        <<101, 97, 116>>,  \* eat
        <<100, 114, 105, 110, 107>>,  \* drink
        <<102, 111, 111, 100>>,  \* food
        <<109, 101, 110, 117>>,  \* menu
        <<111, 114, 100, 101, 114>>,  \* order
        <<114, 101, 115, 116, 97, 117, 114, 97, 110, 116>>,  \* restaurant
        <<100, 101, 108, 105, 99, 105, 111, 117, 115>>,  \* delicious
        <<100, 105, 115, 104>>,  \* dish
        <<99, 117, 105, 115, 105, 110, 101>>,  \* cuisine
        <<104, 117, 110, 103, 114, 121>>  \* hungry
    >> >>,
    <<"shopping", <<
        <<24215>>,  \* 店
        <<36023>>,  \* 買
        <<22770>>,  \* 売
        <<12524, 12472>>,  \* レジ
        <<12509, 12452, 12531, 12488>>,  \* ポイント
        <<12475, 12540, 12523>>,  \* セール
        <<36023, 12356, 29289>>,  \* 買い物
        <<12363, 12356, 12418, 12398>>,  \* かいもの
        <<20516, 27573>>,  \* 値段
        <<39640, 12356>>,  \* 高い
        <<23433, 12356>>,  \* 安い
        <<115, 104, 111, 112>>,  \* shop
        <<115, 116, 111, 114, 101>>,  \* store
        <<98, 117, 121>>,  \* buy
        <<115, 101, 108, 108>>,  \* sell
        <<112, 114, 105, 99, 101>>  \* price
    >> >>,
    <<"transportation", <<
        <<39365>>,  \* 駅
        <<38651, 36554>>,  \* 電車
        <<12496, 12473>>,  \* バス
        <<20999, 31526>>,  \* 切符
        <<20055>>,  \* 乗
        <<22320, 19979, 37444>>,  \* 地下鉄
        <<26032, 24185, 32218>>,  \* 新幹線
        <<12479, 12463, 12471, 12540>>,  \* タクシー
        <<39131, 34892, 27231>>,  \* 飛行機
        <<31354, 28207>>,  \* 空港
        <<115, 116, 97, 116, 105, 111, 110>>,  \* station
        <<116, 114, 97, 105, 110>>,  \* train
        <<98, 117, 115>>,  \* bus
        <<115, 117, 98, 119, 97, 121>>,  \* subway
        <<116, 97, 120, 105>>,  \* taxi
        <<97, 105, 114, 112, 111, 114, 116>>  \* airport
    >> >>,
    <<"time", <<
        <<26178>>,  \* 時
        <<20998>>,  \* 分
        <<26085>>,  \* 日
        <<26376>>,  \* 月
        <<26332, 26085>>,  \* 曜日
        <<24180>>,  \* 年
        <<20170, 26085>>,  \* 今日
        <<26126, 26085>>,  \* 明日
        <<26152, 26085>>,  \* 昨日
        <<36913>>,  \* 週
        <<26397>>,  \* 朝
        <<22812>>,  \* 夜
        <<21320, 24460>>,  \* 午後
        <<116, 105, 109, 101>>,  \* time
        <<104, 111, 117, 114>>,  \* hour
        <<100, 97, 121>>,  \* day
        <<119, 101, 101, 107>>,  \* week
        <<109, 111, 110, 116, 104>>,  \* month
        <<121, 101, 97, 114>>,  \* year
        <<116, 111, 100, 97, 121>>,  \* today
        <<116, 111, 109, 111, 114, 114, 111, 119>>,  \* tomorrow
        <<121, 101, 115, 116, 101, 114, 100, 97, 121>>,  \* yesterday
        <<109, 111, 114, 110, 105, 110, 103>>,  \* morning
        <<110, 105, 103, 104, 116>>  \* night
    >> >>,
    <<"daily_life", <<
        <<20181, 20107>>,  \* 仕事
        <<21193, 24375>>,  \* 勉強
        <<23517>>,  \* 寝
        <<36215, 12365>>,  \* 起き
        <<25955, 27497>>,  \* 散歩
        <<20685>>,  \* 働
        <<23478>>,  \* 家
        <<37096, 23627>>,  \* 部屋
        <<26009, 29702>>,  \* 料理
        <<27927, 28655>>,  \* 洗濯
        <<25475, 38500>>,  \* 掃除
        <<119, 111, 114, 107>>,  \* work
        <<115, 116, 117, 100, 121>>,  \* study
        <<115, 108, 101, 101, 112>>,  \* sleep
        <<119, 97, 107, 101>>,  \* wake
        <<119, 97, 108, 107>>,  \* walk
        <<104, 111, 109, 101>>  \* home
    >> >>,
    <<"family", <<
        <<23478, 26063>>,  \* 家族
        <<27597>>,  \* 母
        <<29238>>,  \* 父
        <<23064>>,  \* 娘
        <<24687, 23376>>,  \* 息子
        <<20804>>,  \* 兄
        <<22985>>,  \* 姉
        <<24351>>,  \* 弟
        <<22969>>,  \* 妹
        <<31062, 29238>>,  \* 祖父
        <<31062, 27597>>,  \* 祖母
        <<29356>>,  \* 犬
        <<29483>>,  \* 猫
        <<102, 97, 109, 105, 108, 121>>,  \* family
        <<109, 111, 116, 104, 101, 114>>,  \* mother
        <<102, 97, 116, 104, 101, 114>>,  \* father
        <<100, 97, 117, 103, 104, 116, 101, 114>>,  \* daughter
        <<115, 111, 110>>,  \* son
        <<100, 111, 103>>,  \* dog
        <<99, 97, 116>>  \* cat
    >> >>,
    <<"travel", <<
        <<26053, 34892>>,  \* 旅行
        <<12507, 12486, 12523>>,  \* ホテル
        <<20104, 32004>>,  \* 予約
        <<35251, 20809>>,  \* 観光
        <<28201, 27849>>,  \* 温泉
        <<116, 114, 97, 118, 101, 108>>,  \* travel
        <<104, 111, 116, 101, 108>>,  \* hotel
        <<114, 101, 115, 101, 114, 118, 97, 116, 105, 111, 110>>,  \* reservation
        <<115, 105, 103, 104, 116, 115, 101, 101, 105, 110, 103>>  \* sightseeing
    >> >>,
    <<"weather", <<
        <<22825, 27671>>,  \* 天気
        <<38632>>,  \* 雨
        <<26228>>,  \* 晴
        <<26311>>,  \* 曇
        <<38634>>,  \* 雪
        <<26257, 12356>>,  \* 暑い
        <<23506, 12356>>,  \* 寒い
        <<119, 101, 97, 116, 104, 101, 114>>,  \* weather
        <<114, 97, 105, 110>>,  \* rain
        <<115, 117, 110, 110, 121>>,  \* sunny
        <<99, 108, 111, 117, 100, 121>>,  \* cloudy
        <<115, 110, 111, 119>>,  \* snow
        <<104, 111, 116>>,  \* hot
        <<99, 111, 108, 100>>  \* cold
    >> >>,
    <<"health", <<
        <<30149, 38498>>,  \* 病院
        <<21307, 32773>>,  \* 医者
        <<34220>>,  \* 薬
        <<30171, 12356>>,  \* 痛い
        <<20855, 21512>>,  \* 具合
        <<29105>>,  \* 熱
        <<104, 111, 115, 112, 105, 116, 97, 108>>,  \* hospital
        <<100, 111, 99, 116, 111, 114>>,  \* doctor
        <<109, 101, 100, 105, 99, 105, 110, 101>>,  \* medicine
        <<112, 97, 105, 110>>,  \* pain
        <<115, 105, 99, 107>>  \* sick
    >> >>,
    <<"greetings", <<
        <<12362, 12399, 12424, 12358>>,  \* おはよう
        <<12371, 12435, 12395, 12385, 12399>>,  \* こんにちは
        <<12371, 12435, 12400, 12435, 12399>>,  \* こんばんは
        <<12373, 12424, 12358, 12394, 12425>>,  \* さようなら
        <<12354, 12426, 12364, 12392, 12358>>,  \* ありがとう
        <<12377, 12415, 12414, 12379, 12435>>,  \* すみません
        <<12372, 12417, 12435>>,  \* ごめん
        <<104, 101, 108, 108, 111>>,  \* hello
        <<103, 111, 111, 100, 98, 121, 101>>,  \* goodbye
        <<116, 104, 97, 110, 107>>,  \* thank
        <<115, 111, 114, 114, 121>>  \* sorry
    >> >>
  >>

(* grammar_jlpt: grammar pattern -> JLPT level, in dict order. *)
grammar_jlpt ==
  <<
    <<<<12391, 12377>>, "N5">>,  \* です
    <<<<12414, 12377>>, "N5">>,  \* ます
    <<<<12414, 12379, 12435>>, "N5">>,  \* ません
    <<<<12414, 12375, 12383>>, "N5">>,  \* ました
    <<<<12414, 12379, 12435, 12391, 12375, 12383>>, "N5">>,  \* ませんでした
    <<<<12390, 12367, 12384, 12373, 12356>>, "N5">>,  \* てください
    <<<<12390, 12356, 12427>>, "N5">>,  \* ている
    <<<<12383, 12356>>, "N5">>,  \* たい
    <<<<12383, 12367, 12394, 12356>>, "N5">>,  \* たくない
    <<<<12394, 12356, 12391, 12377>>, "N5">>,  \* ないです
    <<<<12363, 12425>>, "N5">>,  \* から
    <<<<12369, 12393>>, "N5">>,  \* けど
    <<<<12364>>, "N5">>,  \* が
    <<<<12390, 12356, 12383, 12384, 12369, 12414, 12377, 12363>>, "N4">>,  \* ていただけますか
    <<<<12390, 12418, 12425, 12360, 12414, 12377, 12363>>, "N4">>,  \* てもらえますか
    <<<<12390, 12418, 12356, 12356, 12391, 12377, 12363>>, "N4">>,  \* てもいいですか
    <<<<12390, 12399, 12356, 12369, 12414, 12379, 12435>>, "N4">>,  \* てはいけません
    <<<<12394, 12369, 12428, 12400, 12394, 12426, 12414, 12379, 12435>>, "N4">>,  \* なければなりません
    <<<<12371, 12392, 12364, 12391, 12365, 12414, 12377>>, "N4">>,  \* ことができます
    <<<<12371, 12392, 12364, 12354, 12426, 12414, 12377>>, "N4">>,  \* ことがあります
    <<<<12392, 24605, 12356, 12414, 12377>>, "N4">>,  \* と思います
    <<<<12388, 12418, 12426, 12391, 12377>>, "N4">>,  \* つもりです
    <<<<20104, 23450, 12391, 12377>>, "N4">>,  \* 予定です
    <<<<12424, 12358, 12395, 12377, 12427>>, "N4">>,  \* ようにする
    <<<<12383, 12371, 12392, 12364, 12354, 12427>>, "N4">>,  \* たことがある
    <<<<12383, 12426>>, "N4">>,  \* たり
    <<<<12394, 12364, 12425>>, "N4">>,  \* ながら
    <<<<12381, 12358, 12391, 12377>>, "N3">>,  \* そうです
    <<<<12424, 12358, 12391, 12377>>, "N3">>,  \* ようです
    <<<<12425, 12375, 12356, 12391, 12377>>, "N3">>,  \* らしいです
    <<<<12411, 12358, 12364, 12356, 12356>>, "N3">>,  \* ほうがいい
    <<<<12377, 12366, 12427>>, "N3">>,  \* すぎる
    <<<<12420, 12377, 12356>>, "N3">>,  \* やすい
    <<<<12395, 12367, 12356>>, "N3">>,  \* にくい
    <<<<12383, 12417, 12395>>, "N3">>,  \* ために
    <<<<12424, 12358, 12395, 12394, 12427>>, "N3">>,  \* ようになる
    <<<<12371, 12392, 12395, 12377, 12427>>, "N3">>,  \* ことにする
    <<<<12400, 12363, 12426>>, "N3">>,  \* ばかり
    <<<<12399, 12378>>, "N3">>,  \* はず
    <<<<12431, 12369, 12391, 12399, 12394, 12356>>, "N2">>,  \* わけではない
    <<<<12392, 12356, 12358, 12398, 12399>>, "N2">>,  \* というのは
    <<<<12371, 12392, 12395, 12394, 12427>>, "N2">>,  \* ことになる
    <<<<12374, 12427, 12434, 24471, 12394, 12356>>, "N2">>,  \* ざるを得ない
    <<<<12395, 38306, 12375, 12390>>, "N2">>,  \* に関して
    <<<<12395, 12362, 12356, 12390>>, "N2">>  \* において
  >>

(* vocab_jlpt: JLPT level -> vocabulary list, in dict order. *)
vocab_jlpt ==
  <<
    <<"N5", <<
        <<39135, 12409, 12427>>,  \* 食べる
        <<39154, 12416>>,  \* 飲む
        <<34892, 12367>>,  \* 行く
        <<26469, 12427>>,  \* 来る
        <<35211, 12427>>,  \* 見る
        <<32862, 12367>>,  \* 聞く
        <<35501, 12416>>,  \* 読む
        <<26360, 12367>>,  \* 書く
        <<35441, 12377>>,  \* 話す
        <<36023, 12358>>,  \* 買う
        <<23517, 12427>>,  \* 寝る
        <<36215, 12365, 12427>>,  \* 起きる
        <<20250, 12358>>,  \* 会う
        <<24453, 12388>>,  \* 待つ
        <<20316, 12427>>,  \* 作る
        <<20351, 12358>>,  \* 使う
        <<20170, 26085>>,  \* 今日
        <<26126, 26085>>,  \* 明日
        <<26152, 26085>>,  \* 昨日
        <<20170>>,  \* 今
        <<26397>>,  \* 朝
        <<22812>>,  \* 夜
        <<21320, 24460>>,  \* 午後
        <<21320, 21069>>,  \* 午前
        <<26178>>,  \* 時
        <<20998>>,  \* 分
        <<26376>>,  \* 月
        <<26085>>,  \* 日
        <<24180>>,  \* 年
        <<36913>>,  \* 週
        <<26332, 26085>>,  \* 曜日
        <<20154>>,  \* 人
        <<30007>>,  \* 男
        <<22899>>,  \* 女
        <<23376, 20379>>,  \* 子供
        <<21451, 36948>>,  \* 友達
        <<20808, 29983>>,  \* 先生
        <<23398, 29983>>,  \* 学生
        <<23478>>,  \* 家
        <<37096, 23627>>,  \* 部屋
        <<23398, 26657>>,  \* 学校
        <<20250, 31038>>,  \* 会社
        <<39365>>,  \* 駅
        <<24215>>,  \* 店
        <<30149, 38498>>,  \* 病院
        <<27700>>,  \* 水
        <<12362, 33590>>,  \* お茶
        <<12372, 39151>>,  \* ご飯
        <<12497, 12531>>,  \* パン
        <<32905>>,  \* 肉
        <<39770>>,  \* 魚
        <<37326, 33756>>,  \* 野菜
        <<26524, 29289>>,  \* 果物
        <<22823, 12365, 12356>>,  \* 大きい
        <<23567, 12373, 12356>>,  \* 小さい
        <<39640, 12356>>,  \* 高い
        <<23433, 12356>>,  \* 安い
        <<26032, 12375, 12356>>,  \* 新しい
        <<21476, 12356>>,  \* 古い
        <<12356, 12356>>,  \* いい
        <<24746, 12356>>,  \* 悪い
        <<22810, 12356>>,  \* 多い
        <<23569, 12394, 12356>>,  \* 少ない
        <<38263, 12356>>,  \* 長い
        <<30701, 12356>>,  \* 短い
        <<12362, 12356, 12375, 12356>>,  \* おいしい
        <<12414, 12378, 12356>>,  \* まずい
        <<26257, 12356>>,  \* 暑い
        <<23506, 12356>>,  \* 寒い
        <<26262, 12363, 12356>>,  \* 暖かい
        <<28092, 12375, 12356>>  \* 涼しい
    >> >>,
    <<"N4", <<
        <<23626, 12369, 12427>>,  \* 届ける
        <<23626, 12367>>,  \* 届く
        <<38928, 12369, 12427>>,  \* 預ける
        <<38928, 12363, 12427>>,  \* 預かる
        <<25448, 12390, 12427>>,  \* 捨てる
        <<25342, 12358>>,  \* 拾う
        <<22793, 12360, 12427>>,  \* 変える
        <<22793, 12431, 12427>>,  \* 変わる
        <<27770, 12417, 12427>>,  \* 決める
        <<27770, 12414, 12427>>,  \* 決まる
        <<38598, 12417, 12427>>,  \* 集める
        <<38598, 12414, 12427>>,  \* 集まる
        <<32076, 39443>>,  \* 経験
        <<32722, 24931>>,  \* 習慣
        <<20104, 23450>>,  \* 予定
        <<28310, 20633>>,  \* 準備
        <<35500, 26126>>,  \* 説明
        <<32057, 20171>>,  \* 紹介
        <<30456, 35527>>,  \* 相談
        <<38306, 20418>>,  \* 関係
        <<29702, 30001>>,  \* 理由
        <<24847, 21619>>,  \* 意味
        <<33288, 21619>>,  \* 興味
        <<36259, 21619>>,  \* 趣味
        <<24615, 26684>>,  \* 性格
        <<27671, 25345, 12385>>,  \* 気持ち
        <<35079, 38609>>,  \* 複雑
        <<31777, 21336>>,  \* 簡単
        <<26222, 36890>>,  \* 普通
        <<29305, 21029>>,  \* 特別
        <<24517, 35201>>,  \* 必要
        <<22823, 20999>>,  \* 大切
        <<22823, 20107>>,  \* 大事
        <<27531, 24565>>,  \* 残念
        <<24515, 37197>>,  \* 心配
        <<23433, 24515>>,  \* 安心
        <<32202, 24373>>,  \* 緊張
        <<24677, 12378, 12363, 12375, 12356>>  \* 恥ずかしい
    >> >>,
    <<"N3", <<
        <<24433, 38911>>,  \* 影響
        <<21177, 26524>>,  \* 効果
        <<21407, 22240>>,  \* 原因
        <<32080, 26524>>,  \* 結果
        <<30446, 30340>>,  \* 目的
        <<26041, 27861>>,  \* 方法
        <<29366, 27841>>,  \* 状況
        <<36012, 20219>>,  \* 責任
        <<32681, 21209>>,  \* 義務
        <<27177, 21033>>,  \* 権利
        <<33258, 30001>>,  \* 自由
        <<24179, 21644>>,  \* 平和
        <<29872, 22659>>,  \* 環境
        <<31038, 20250>>,  \* 社会
        <<32076, 28168>>,  \* 経済
        <<25919, 27835>>,  \* 政治
        <<25991, 21270>>,  \* 文化
        <<27508, 21490>>,  \* 歴史
        <<31185, 23398>>,  \* 科学
        <<25216, 34899>>,  \* 技術
        <<22679, 12360, 12427>>,  \* 増える
        <<28187, 12427>>,  \* 減る
        <<20280, 12403, 12427>>,  \* 伸びる
        <<32302, 12416>>,  \* 縮む
        <<24195, 12364, 12427>>,  \* 広がる
        <<29421, 12414, 12427>>,  \* 狭まる
        <<35079, 38609>>,  \* 複雑
        <<21336, 32020>>,  \* 単純
        <<20855, 20307, 30340>>,  \* 具体的
        <<25277, 35937, 30340>>,  \* 抽象的
        <<31309, 26997, 30340>>,  \* 積極的
        <<28040, 26997, 30340>>  \* 消極的
    >> >>
  >>

\* self.grammar_patterns = list(self.grammar_jlpt.keys())
grammar_patterns == [i \in 1 .. Len(grammar_jlpt) |-> grammar_jlpt[i][1]]

\* level_order of detect_jlpt_level; level_order.get(x, 0).
level_order(x) ==
  CASE x = "N5" -> 1 [] x = "N4" -> 2 [] x = "N3" -> 3 [] x = "N2" -> 4
    [] x = "N1" -> 5 [] OTHER -> 0

\* type_priority of merge_entries; type_priority.get(t, 0).
type_priority(t) ==
  CASE t = "sentence" -> 3 [] t = "phrase" -> 2 [] t = "vocab" -> 1
    [] t = "note" -> 0 [] OTHER -> 0

(***************************************************************************)
(* Furigana.                                                               *)
(***************************************************************************)
\* re.search(r'[一-龯]', text): a character in U+4E00 .. U+9FAF.
has_kanji(text) == \E i \in 1 .. Len(text) : text[i] \in 19968 .. 40879

\* clean = re.sub(r'[\s\-\.\,\?\!]', '', text), then
\* ^[぀-ゟ゠-ヿー　-〿ー]+$ on it.
is_all_hiragana_katakana(text) ==
  LET clean == Remove(text, WhiteSpace \cup {45, 46, 44, 63, 33})  \* '-' '.' ',' '?' '!'
  IN  /\ clean # <<>>
      /\ \A i \in 1 .. Len(clean) :
           clean[i] \in (12352 .. 12447) \cup (12448 .. 12543) \cup {12540}
                          \cup (12288 .. 12351)

\* Least position i >= from with text[i] = c, or 0.
FirstIndex(text, c, from) == Least({i \in from .. Len(text) : text[i] = c})

\* The pattern ([^（\s]+?)（([^）]+?)） tried at position s: <<q, r>>, the
\* positions of the brackets （ and ）, or <<0, 0>> when it does not match
\* there.  Group 1 is text[s .. q-1] and cannot hold （ or whitespace, so q is
\* the first （ after s; group 2 is text[q+1 .. r-1], cannot hold ） and is
\* not empty, so r is the first ） after q.
FuriganaMatchAt(text, s) ==
  LET closing(q, r) == IF r = 0 \/ r = q + 1 THEN <<0, 0>> ELSE <<q, r>>
      opening(q) ==
        IF q = 0 \/ (\E k \in s .. (q - 1) : IsSpace(text[k])) THEN <<0, 0>>
        ELSE closing(q, FirstIndex(text, 65289, q + 1))  \* '）'
  IN  IF s > Len(text) \/ text[s] = 65288 \/ IsSpace(text[s]) THEN <<0, 0>>  \* '（'
      ELSE opening(FirstIndex(text, 65288, s + 1))  \* '（'

\* Start of the leftmost match at or after pos (re.finditer), or 0.
NextFurigana(text, pos) ==
  Least({s \in pos .. Len(text) : FuriganaMatchAt(text, s) # <<0, 0>>})

\* The loop with the text after the last annotation left out of the reading.
RECURSIVE FuriganaPartsNoRemaining(_, _)
FuriganaPartsNoRemaining(text, last_end) ==
  LET matched(before, group1, group2, rest) ==
        <<before \o group1 \o rest[1], before \o group2 \o rest[2]>>
      at(s, m) ==
        IF s = 0 THEN <<From(text, last_end + 1), <<>>>>
        ELSE matched(Slice(text, last_end + 1, s - 1), Slice(text, s, m[1] - 1),
                     Slice(text, m[1] + 1, m[2] - 1),
                     FuriganaPartsNoRemaining(text, m[2]))
      from(s) == at(s, FuriganaMatchAt(text, s))
  IN  from(NextFurigana(text, last_end + 1))

\* The loop of extract_furigana from last_end on: <<''.join(clean_parts),
\* ''.join(reading_parts)>>.
RECURSIVE FuriganaParts(_, _)
FuriganaParts(text, last_end) ==
  LET both(remaining) == <<remaining, remaining>>
      \* a match starting at s with brackets at m[1] and m[2]; rest is what the
      \* loop yields after it
      matched(before, group1, group2, rest) ==
        <<before \o group1 \o rest[1], before \o group2 \o rest[2]>>
      at(s, m) ==
        IF s = 0 THEN both(From(text, last_end + 1))
        ELSE matched(Slice(text, last_end + 1, s - 1), Slice(text, s, m[1] - 1),
                     Slice(text, m[1] + 1, m[2] - 1), FuriganaParts(text, m[2]))
      from(s) == at(s, FuriganaMatchAt(text, s))
  IN  from(NextFurigana(text, last_end + 1))

\* The assembled reading returned whatever it holds.
extract_furigana_unchecked(text) ==
  LET stripped(parts) == <<Strip(parts[1]), Some(Strip(parts[2]))>>
  IN  stripped(FuriganaParts(text, 0))

\* extract_furigana: <<clean_japanese, reading>>, reading None when what was
\* assembled still has kanji.
extract_furigana(text) ==
  LET result(clean_japanese, reading) ==
        IF has_kanji(reading) THEN <<clean_japanese, None>>
        ELSE <<clean_japanese, Some(reading)>>
      stripped(parts) == result(Strip(parts[1]), Strip(parts[2]))
  IN  stripped(FuriganaParts(text, 0))

(***************************************************************************)
(* One entry line.                                                         *)
(***************************************************************************)
\* re.search(r'[）a-zA-Z]\- ', line)
HasBracketOrLetterDash(line) ==
  \E i \in 1 .. Len(line) :
    /\ (line[i] = 65289 \/ IsAsciiLetter(line[i]))  \* '）'
    /\ MatchesAt(line, <<45, 32>>, i + 1)  \* "- "

\* s.split(sep, 1) at the first occurrence of sep, which is at position i:
\* <<parts[0].strip(), Some(parts[1].strip())>>.
SplitAt(s, i, sep) ==
  <<Strip(Slice(s, 1, i - 1)), Some(Strip(From(s, i + Len(sep))))>>

\* The Japanese part and the English part of a line of parse_entry_line:
\* <<japanese_part, english>>.
SplitEntry(line) ==
  IF Contains(line, <<32, 45, 32>>) THEN SplitAt(line, Find(line, <<32, 45, 32>>), <<32, 45, 32>>)  \* " - " " - " " - "
  ELSE IF Contains(line, <<45, 32>>) /\ HasBracketOrLetterDash(line)  \* "- "
  THEN SplitAt(line, Find(line, <<45, 32>>), <<45, 32>>)  \* "- " "- "
  ELSE <<line, None>>

\* parse_entry_line: None, or Some of the record japanese / reading / english.
parse_entry_line(raw) ==
  LET record(japanese, reading, english) ==
        [japanese |-> japanese,
         reading |->
           IF IsNone(reading) /\ is_all_hiragana_katakana(japanese)
           THEN Some(japanese)
           ELSE reading,
         english |-> english]
      extracted(furigana, english) == record(furigana[1], furigana[2], english)
      parts(split) == extracted(extract_furigana(split[1]), split[2])
      parsed(line) == IF line = <<>> THEN None ELSE Some(parts(SplitEntry(line)))
  IN  \* line = re.sub(r'^\*\s*', '', line).strip()
      parsed(Strip(IF StartsWith(raw, <<42>>) THEN LStrip(Tail(raw)) ELSE raw))  \* "*"

(***************************************************************************)
(* The annotators.                                                         *)
(***************************************************************************)
\* any(p in japanese for p in ps)
ContainsAny(text, ps) == \E i \in 1 .. Len(ps) : Contains(text, ps[i])

\* any(japanese.endswith(p) for p in ps)
EndsWithAny(text, ps) == \E i \in 1 .. Len(ps) : EndsWith(text, ps[i])

\* The classification with the infix markers tried before the final ones.
detect_entry_type_infix_first(japanese, english) ==
  LET typed(char_count) ==
        IF char_count <= 5 /\ ~ContainsAny(japanese, <<<<12414, 12377>>, <<12391, 12377>>, <<12363>>>>)  \* "ます" "です" "か"
        THEN "vocab"
        ELSE IF ContainsAny(japanese, <<<<12414, 12377>>, <<12391, 12377>>, <<12390>>, <<12383>>>>)  \* "ます" "です" "て" "た"
        THEN "phrase"
        ELSE IF EndsWithAny(japanese,
                  <<<<12414, 12377>>, <<12414, 12375, 12383>>, <<12414, 12379, 12435>>, <<12391, 12377>>, <<12363>>, <<12424>>, <<12397>>>>)  \* "ます" "ました" "ません" "です" "か" "よ" "ね"
        THEN (IF char_count > 12 THEN "sentence" ELSE "phrase")
        ELSE IF char_count <= 8 THEN "vocab" ELSE "phrase"
  IN  IF japanese = <<>> THEN "note"
      ELSE typed(Len(Remove(japanese, {32, 12288})))  \* ' ' '　'

detect_entry_type(japanese, english) ==
  LET typed(char_count) ==
        IF char_count <= 5 /\ ~ContainsAny(japanese, <<<<12414, 12377>>, <<12391, 12377>>, <<12363>>>>)  \* "ます" "です" "か"
        THEN "vocab"
        ELSE IF EndsWithAny(japanese,
                  <<<<12414, 12377>>, <<12414, 12375, 12383>>, <<12414, 12379, 12435>>, <<12391, 12377>>, <<12363>>, <<12424>>, <<12397>>>>)  \* "ます" "ました" "ません" "です" "か" "よ" "ね"
        THEN (IF char_count > 12 THEN "sentence" ELSE "phrase")
        ELSE IF ContainsAny(japanese, <<<<12414, 12377>>, <<12391, 12377>>, <<12390>>, <<12383>>>>)  \* "ます" "です" "て" "た"
        THEN "phrase"
        ELSE IF char_count <= 8 THEN "vocab" ELSE "phrase"
  IN  IF japanese = <<>> THEN "note"
      ELSE typed(Len(Remove(japanese, {32, 12288})))  \* ' ' '　'

\* The names of a table's rows one of whose keywords, lower-cased, is in text.
RECURSIVE MatchingRows(_, _)
MatchingRows(table, text) ==
  IF table = <<>> THEN <<>>
  ELSE (IF \E k \in 1 .. Len(table[1][2]) : Contains(text, Lower(table[1][2][k]))
        THEN <<table[1][1]>>
        ELSE <<>>) \o MatchingRows(Tail(table), text)

\* The keywords looked for in the text as it is written.
detect_scenarios_case_sensitive(japanese, english) ==
  LET tagged(scenarios) == IF scenarios # <<>> THEN scenarios ELSE <<"general">>
  IN  tagged(MatchingRows(scenario_keywords,
               japanese \o <<32>> \o (IF IsNone(english) THEN <<>> ELSE Val(english))))  \* " "

detect_scenarios(japanese, english) ==
  LET tagged(scenarios) == IF scenarios # <<>> THEN scenarios ELSE <<"general">>
  IN  \* text = f"{japanese} {english or ''}".lower()
      tagged(MatchingRows(scenario_keywords,
               Lower(japanese \o <<32>> \o (IF IsNone(english) THEN <<>> ELSE Val(english)))))  \* " "

detect_grammar_patterns(japanese) ==
  SelectSeq(grammar_patterns, LAMBDA pattern : Contains(japanese, pattern))

\* vocab_jlpt's levels with a term in japanese (the inner loop breaks at the
\* first term found; the terms are not lower-cased here).
RECURSIVE VocabLevels(_, _)
VocabLevels(table, japanese) ==
  IF table = <<>> THEN <<>>
  ELSE (IF \E k \in 1 .. Len(table[1][2]) : Contains(japanese, table[1][2][k])
        THEN <<table[1][1]>>
        ELSE <<>>) \o VocabLevels(Tail(table), japanese)

\* The second components of a list of pairs.
Seconds(rows) == [i \in 1 .. Len(rows) |-> rows[i][2]]

\* The first level found returned.
detect_jlpt_level_first(japanese, reading, english) ==
  LET first(levels_found) == IF levels_found # <<>> THEN Some(levels_found[1]) ELSE None
  IN  first(Seconds(SelectSeq(grammar_jlpt, LAMBDA row : Contains(japanese, row[1])))
              \o VocabLevels(vocab_jlpt, japanese))

detect_jlpt_level(japanese, reading, english) ==
  LET hardest(levels_found) ==
        IF levels_found # <<>>
        THEN Some(CHOOSE x \in Range(levels_found) :
                    \A y \in Range(levels_found) : level_order(y) <= level_order(x))
        ELSE None
  IN  hardest(Seconds(SelectSeq(grammar_jlpt, LAMBDA row : Contains(japanese, row[1])))
                \o VocabLevels(vocab_jlpt, japanese))

(***************************************************************************)
(* Lesson-date headers.                                                    *)
(***************************************************************************)
\* ^(20\d{2}-\d{2}-\d{2})\s*$ on line.strip().
IsIsoDate(s) ==
  /\ Len(s) = 10
  /\ s[1] = 50 /\ s[2] = 48 /\ IsDigit(s[3]) /\ IsDigit(s[4])  \* '2' '0'
  /\ s[5] = 45 /\ IsDigit(s[6]) /\ IsDigit(s[7])  \* '-'
  /\ s[8] = 45 /\ IsDigit(s[9]) /\ IsDigit(s[10])  \* '-'

\* Character i of line, 0 past its end.
At(line, i) == IF i >= 1 /\ i <= Len(line) THEN line[i] ELSE 0

\* The number a run of n digits of line at position i stands for (int()).
Number(line, i, n) ==
  IF n = 2 THEN 10 * DigitValue(line[i]) + DigitValue(line[i + 1])
  ELSE DigitValue(line[i])

\* 日本語のレッスン\s*(\d{1,2})/(\d{1,2}) tried with the marker at p:
\* None, or Some of <<month, day>>.
OldFormatAt(line, p) ==
  LET \* (\d{1,2}) at j, greedy
      day(i, monthLen, j, dayLen) ==
        IF dayLen = 0 THEN None
        ELSE Some(<<Number(line, i, monthLen), Number(line, j, dayLen)>>)
      \* (\d{1,2})/ at i: two digits if a / follows them, else one
      month(i, monthLen) ==
        IF monthLen = 0 THEN None
        ELSE day(i, monthLen, i + monthLen + 1,
                 IF IsDigit(At(line, i + monthLen + 1))
                    /\ IsDigit(At(line, i + monthLen + 2)) THEN 2
                 ELSE IF IsDigit(At(line, i + monthLen + 1)) THEN 1
                 ELSE 0)
      digits(i) ==
        month(i, IF IsDigit(At(line, i)) /\ IsDigit(At(line, i + 1))
                    /\ At(line, i + 2) = 47 THEN 2  \* '/'
                 ELSE IF IsDigit(At(line, i)) /\ At(line, i + 1) = 47 THEN 1  \* '/'
                 ELSE 0)
  IN  IF ~MatchesAt(line, <<26085, 26412, 35486, 12398, 12524, 12483, 12473, 12531>>, p) THEN None  \* "日本語のレッスン"
      ELSE \* \s* is greedy and a digit must follow: skip all the whitespace
           digits(Least({i \in (p + 8) .. (Len(line) + 1) : ~IsSpace(At(line, i))}))

\* parse_lesson_date: <<date_result, needs_year>>, date_result None or Some
\* of "YYYY-MM-DD" (ISO) or of "MM-DD" (old format).
parse_lesson_date(line) ==
  LET old(md) ==
        IF IsNone(md) THEN <<None, FALSE>>
        ELSE <<Some(Format02d(Val(md)[1]) \o <<45>> \o Format02d(Val(md)[2])), TRUE>>  \* "-"
      \* re.search finds the leftmost position at which the pattern matches
      old_match(p) == old(IF p = 0 THEN None ELSE OldFormatAt(line, p))
  IN  IF IsIsoDate(Strip(line)) THEN <<Some(Strip(line)), FALSE>>
      ELSE old_match(Least({p \in 1 .. Len(line) : ~IsNone(OldFormatAt(line, p))}))

(***************************************************************************)
(* Deduplication and merge.                                                *)
(***************************************************************************)
\* The elements of a set in TLC's own fixed order.
RECURSIVE Enumerate(_)
Enumerate(S) ==
  IF S = {} THEN <<>>
  ELSE LET x == CHOOSE y \in S : TRUE IN <<x>> \o Enumerate(S \ {x})

\* list(set(...)): the elements of S in the iteration order of a set of str,
\* which depends on the process's string-hash seed; h selects one of the
\* orders (every order of a set of up to 3 elements for h in 0 .. 5).
RECURSIVE ListOfSet(_, _)
ListOfSet(S, h) ==
  LET cons(x) == <<x>> \o ListOfSet(S \ {x}, h \div Cardinality(S))
      nth(base) == cons(base[(h % Len(base)) + 1])
  IN  IF S = {} THEN <<>> ELSE nth(Enumerate(S))

\* The string-hash seeds told apart.
HashSeeds == 0 .. 5

\* list.remove(x): drop the first occurrence of x.
RECURSIVE ListRemove(_, _)
ListRemove(s, x) ==
  IF s = <<>> THEN <<>>
  ELSE IF Head(s) = x THEN Tail(s)
  ELSE <<Head(s)>> \o ListRemove(Tail(s), x)

\* Truth value of an optional string: neither None nor ''.
Truthy(o) == ~IsNone(o) /\ Val(o) # <<>>

\* The greatest of a non-empty list of strings.
MaxStr(dates) ==
  CHOOSE d \in Range(dates) : \A e \in Range(dates) : StrLeq(e, d)

\* min() of a non-empty list of strings.
MinStr(dates) ==
  CHOOSE d \in Range(dates) : \A e \in Range(dates) : StrLeq(d, e)

\* A reading rule under which the last present reading stays.
MergedReadingLast(merged, entry) ==
  IF ~IsNone(entry.reading) THEN entry.reading ELSE merged.reading

\* Reading: prefer non-None.
MergedReading(merged, entry) ==
  IF IsNone(merged.reading) /\ ~IsNone(entry.reading) THEN entry.reading
  ELSE merged.reading

\* A translation rule under which the last of the longest translations stays.
MergedEnglishLast(merged, entry) ==
  IF IsNone(merged.english) /\ ~IsNone(entry.english) THEN entry.english
  ELSE IF Truthy(merged.english) /\ Truthy(entry.english)
          /\ Len(Val(entry.english)) >= Len(Val(merged.english))
  THEN entry.english
  ELSE merged.english

\* English: prefer non-None, or prefer the longer.
MergedEnglish(merged, entry) ==
  IF IsNone(merged.english) /\ ~IsNone(entry.english) THEN entry.english
  ELSE IF Truthy(merged.english) /\ Truthy(entry.english)
          /\ Len(Val(entry.english)) > Len(Val(merged.english))
  THEN entry.english
  ELSE merged.english

\* One iteration of the loop of merge_entries: entry folded into merged.
MergeStep(merged, entry, h) ==
  [merged EXCEPT
     !.reading = MergedReading(merged, entry),
     !.english = MergedEnglish(merged, entry),
     !.entry_type =
       IF type_priority(entry.entry_type) > type_priority(merged.entry_type)
       THEN entry.entry_type
       ELSE @,
     !.tags = ListOfSet(Range(merged.tags) \cup Range(entry.tags), h),
     !.grammar_patterns =
       ListOfSet(Range(merged.grammar_patterns) \cup Range(entry.grammar_patterns), h),
     !.jlpt_level =
       IF IsNone(merged.jlpt_level) /\ ~IsNone(entry.jlpt_level) THEN entry.jlpt_level
       ELSE @,
     !.context_note =
       IF IsNone(merged.context_note) /\ ~IsNone(entry.context_note)
       THEN entry.context_note
       ELSE @]

\* for entry in rest: ... (the fold of merge_entries).
RECURSIVE MergeFold(_, _, _)
MergeFold(merged, rest, h) ==
  IF rest = <<>> THEN merged
  ELSE MergeFold(MergeStep(merged, Head(rest), h), Tail(rest), h)

\* all_dates = [e['lesson_date'] for e in entries if e['lesson_date']]
AllDates(group) ==
  LET dates(present) == [i \in 1 .. Len(present) |-> Val(present[i].lesson_date)]
  IN  dates(SelectSeq(group, LAMBDA e : Truthy(e.lesson_date)))

\* The date of the first member left in place.
FirstDate(merged, all_dates) == merged

\* Use the earliest lesson date.
EarliestDate(merged, all_dates) ==
  IF all_dates # <<>>
  THEN [merged EXCEPT !.lesson_date = Some(MinStr(all_dates))]
  ELSE merged

\* 'general' removed wherever it occurs.
DropGeneralAlways(merged) ==
  IF "general" \in Range(merged.tags)
  THEN [merged EXCEPT !.tags = ListRemove(@, "general")]
  ELSE merged

\* Remove 'general' if there are more specific tags.
DropGeneral(merged) ==
  IF Len(merged.tags) > 1 /\ "general" \in Range(merged.tags)
  THEN [merged EXCEPT !.tags = ListRemove(@, "general")]
  ELSE merged

\* A merge that leaves 'general' among the united tags.
merge_entries_keep_general(group, h) ==
  EarliestDate(MergeFold(group[1], Tail(group), h), AllDates(group))

\* merge_entries on a group (a list of entries with the same japanese).
merge_entries(group, h) ==
  DropGeneral(EarliestDate(MergeFold(group[1], Tail(group), h), AllDates(group)))

\* A key for every entry, whether its japanese has been met or not.
EveryKey(es, seen) == seen \o [i \in 1 .. Len(es) |-> es[i].japanese]

\* The keys of grouped, in insertion order: each japanese, at its first entry.
RECURSIVE GroupKeys(_, _)
GroupKeys(es, seen) ==
  IF es = <<>> THEN seen
  ELSE GroupKeys(Tail(es),
                 IF es[1].japanese \in Range(seen) THEN seen
                 ELSE Append(seen, es[1].japanese))

\* grouped.items(): the groups, in insertion order of their keys.
Grouped(es) ==
  LET groups(keys) ==
        [k \in 1 .. Len(keys) |-> SelectSeq(es, LAMBDA e : e.japanese = keys[k])]
  IN  groups(GroupKeys(es, <<>>))

\* A sort key that leaves an absent date empty.
SortKeyEmpty(e) == IF Truthy(e.lesson_date) THEN Val(e.lesson_date) ELSE <<>>

\* The sort key of deduplicate_entries: e['lesson_date'] or '9999-99-99'.
SortKey(e) == IF Truthy(e.lesson_date) THEN Val(e.lesson_date) ELSE <<57, 57, 57, 57, 45, 57, 57, 45, 57, 57>>  \* "9999-99-99"

\* An insertion that puts x before the elements of the same key.
RECURSIVE InsertSortedBeforeEqual(_, _)
InsertSortedBeforeEqual(sorted, x) ==
  IF sorted = <<>> THEN <<x>>
  ELSE IF StrLeq(SortKey(x), SortKey(Head(sorted))) THEN <<x>> \o sorted
  ELSE <<Head(sorted)>> \o InsertSortedBeforeEqual(Tail(sorted), x)

\* list.sort(key=...) is stable: x goes after the elements whose key is not
\* greater than its own.
RECURSIVE InsertSorted(_, _)
InsertSorted(sorted, x) ==
  IF sorted = <<>> THEN <<x>>
  ELSE IF StrLess(SortKey(x), SortKey(Head(sorted))) THEN <<x>> \o sorted
  ELSE <<Head(sorted)>> \o InsertSorted(Tail(sorted), x)

RECURSIVE StableSort(_)
StableSort(s) ==
  IF s = <<>> THEN <<>>
  ELSE InsertSorted(StableSort(Slice(s, 1, Len(s) - 1)), s[Len(s)])

RECURSIVE Sum(_)
Sum(s) == IF s = <<>> THEN 0 ELSE Head(s) + Sum(Tail(s))

\* One counted for every merged group.
MergedInGroupOne(group) == IF Len(group) = 1 THEN 0 ELSE 1

\* What a group adds to duplicates_merged.
MergedInGroup(group) == IF Len(group) = 1 THEN 0 ELSE Len(group) - 1

\* deduplicate_entries: <<deduplicated, duplicates_merged>>.
deduplicate_entries(es, h) ==
  LET result(groups) ==
        <<StableSort([k \in 1 .. Len(groups) |->
                        IF Len(groups[k]) = 1 THEN groups[k][1]
                        ELSE merge_entries(groups[k], h)]),
          Sum([k \in 1 .. Len(groups) |-> MergedInGroup(groups[k])])>>
  IN  result(Grouped(es))

(***************************************************************************)
(* The input.  A line is given without its line terminator, which          *)
(* line.strip() removes before anything else looks at the line.            *)
(***************************************************************************)
\* Lines of specification Spec: every kind of line the loop tells apart.
Catalogue ==
  { <<>>,  \* an empty line
    <<50, 48, 50, 52, 24180>>,  \* year marker
    <<50, 48, 50, 54, 12397, 12435>>,  \* year marker, kana unit
    <<26085, 26412, 35486, 12398, 12524, 12483, 12473, 12531, 32, 51, 47, 49, 52>>,  \* old-format header
    <<26085, 26412, 35486, 12398, 12524, 12483, 12473, 12531, 32, 55, 47, 52>>,  \* old-format header
    <<26085, 26412, 35486, 12398, 12524, 12483, 12473, 12531, 49, 50, 47, 50, 53>>,  \* old-format header, two-digit month and day
    <<50, 48, 50, 53, 45, 48, 54, 45, 48, 49>>,  \* ISO date header
    <<42, 32, 12397, 12371, 32, 45, 32, 99, 97, 116>> }  \* an entry line

\* Lines of specification SpecMerge: two ISO date headers and entry lines, of
\* which four share the base text 行く.
MergeCatalogue ==
  { <<50, 48, 50, 51, 45, 48, 50, 45, 48, 49>>,  \* ISO date header
    <<50, 48, 50, 51, 45, 48, 49, 45, 49, 53>>,  \* ISO date header
    <<42, 32, 34892, 12367>>,  \* no reading, no translation, topic general
    <<42, 32, 34892, 65288, 12356, 65289, 12367, 32, 45, 32, 116, 111, 32, 103, 111>>,  \* reading いく, translation of 5 characters
    <<42, 32, 34892, 65288, 12422, 65289, 12367, 32, 45, 32, 103, 111, 32, 111, 110>>,  \* another reading, translation of 5 characters
    <<42, 32, 34892, 12367, 32, 45, 32, 103, 111, 32, 98, 121, 32, 116, 114, 97, 105, 110>>,  \* longer translation, two topics
    <<42, 32, 12397, 12371, 32, 45, 32, 99, 97, 116>> }  \* another base text

\* Lines of specification SpecOrder: as MergeCatalogue, without the entry that
\* has neither reading nor translation.
OrderCatalogue ==
  { <<50, 48, 50, 51, 45, 48, 50, 45, 48, 49>>,  \* "2023-02-01"
    <<50, 48, 50, 51, 45, 48, 49, 45, 49, 53>>,  \* "2023-01-15"
    <<42, 32, 34892, 65288, 12356, 65289, 12367, 32, 45, 32, 116, 111, 32, 103, 111>>,  \* "* 行（い）く - to go"
    <<42, 32, 34892, 65288, 12422, 65289, 12367, 32, 45, 32, 103, 111, 32, 111, 110>>,  \* "* 行（ゆ）く - go on"
    <<42, 32, 34892, 12367, 32, 45, 32, 103, 111, 32, 98, 121, 32, 116, 114, 97, 105, 110>>,  \* "* 行く - go by train"
    <<42, 32, 12397, 12371, 32, 45, 32, 99, 97, 116>> }  \* "* ねこ - cat"

\* Lines of specification SpecDup: three base texts.
DupCatalogue ==
  { <<42, 32, 34892, 12367>>,  \* "* 行く"
    <<42, 32, 12397, 12371, 32, 45, 32, 99, 97, 116>>,  \* "* ねこ - cat"
    <<42, 32, 20170, 26085>> }  \* "* 今日"

\* Lines of specification SpecEntry: entry lines of every shape the parsing of
\* one line tells apart.
EntryCatalogue ==
  { <<42>>,  \* a bullet and nothing else
    <<42, 32, 12397, 12371, 32, 45, 32, 99, 97, 116>>,  \* kana, no annotation
    <<32, 32, 42, 32, 12397, 12371, 32, 45, 32, 99, 97, 116>>,  \* the same, indented by spaces
    <<42, 32, 29483, 65288, 12397, 12371, 65289, 12364, 22909, 12365, 32, 45, 32, 73, 32, 108, 105, 107, 101, 32, 99, 97, 116, 115>>,  \* annotation on a part of the text
    <<42, 32, 28450, 23383, 65288, 12363, 12435, 12376, 65289, 32, 45, 32, 107, 97, 110, 106, 105>>,  \* annotation on all of the text
    <<42, 32, 12397, 12371, 65288, 29483, 65289>>,  \* kanji inside the brackets
    <<42, 32, 79, 75, 32, 45, 32, 111, 107, 97, 121>>,  \* Latin letters, no annotation
    <<42, 32, 51, 12376>>,  \* a digit and kana
    <<42, 32, 28450, 23383, 65288, 12363, 12435, 12376, 65289, 45, 32, 107, 97, 110, 106, 105>>,  \* a dash after a close-bracket
    <<42, 32, 79, 75, 45, 32, 111, 107, 97, 121>>,  \* a dash after a Latin letter
    <<42, 32, 12397, 12371, 45, 32, 99, 97, 116>>,  \* a dash after kana only
    <<42, 32, 12397, 12371, 45, 32, 29483, 65288, 12397, 12371, 65289, 45, 32, 99, 97, 116>> }  \* a dash after kana, then one after a bracket

\* Lines of specification SpecAnnotate: entry lines of every case the
\* annotators tell apart.
AnnotateCatalogue ==
  { <<42, 32, 12354, 12426, 12364, 12392, 12358>>,  \* 5 characters, no marker
    <<42, 32, 12391, 12377, 12363>>,  \* 3 characters, markers
    <<42, 32, 12397, 32, 12371>>,  \* a space inside
    <<42, 32, 12392, 12375, 12423, 12363, 12435, 12395, 12356, 12365, 12414, 12377>>,  \* 10 characters, final marker
    <<42, 32, 12431, 12383, 12375, 12399, 12414, 12356, 12395, 12385, 12364, 12387, 12371, 12358, 12395, 12356, 12365, 12414, 12377, 32, 45, 32, 73, 32, 103, 111, 32, 116, 111, 32, 115, 99, 104, 111, 111, 108, 32, 101, 118, 101, 114, 121, 32, 100, 97, 121>>,  \* 17
    <<42, 32, 12383, 12409, 12390, 12367, 12384, 12373, 12356, 32, 45, 32, 80, 108, 101, 97, 115, 101, 32, 69, 65, 84>>,  \* 7 characters, infix marker
    <<42, 32, 12467, 12531, 12500, 12517, 12540, 12479, 12540>>,  \* 7 characters, no marker
    <<42, 32, 12452, 12531, 12479, 12540, 12493, 12483, 12488, 12459, 12501, 12455>>,  \* 10 characters, no marker
    <<42, 32, 35079, 38609, 12391, 12377>>,  \* levels N5, N4 and N3
    <<42, 32, 20104, 23450, 12391, 12377, 32, 45, 32, 112, 108, 97, 110>>,  \* levels N5 and N4
    <<42, 32, 26009, 29702, 32, 45, 32, 84, 114, 97, 105, 110, 32, 83, 116, 97, 116, 105, 111, 110>> }  \* two topics by text, two by translation

\* Lines of specification SpecMain: lines that yield nothing, two date headers
\* and entry lines with and without reading and translation.
MainCatalogue ==
  { <<>>,  \* ""
    <<12494, 12540, 12488>>,  \* "ノート"
    <<50, 48, 50, 53, 45, 48, 54, 45, 48, 49>>,  \* "2025-06-01"
    <<26085, 26412, 35486, 12398, 12524, 12483, 12473, 12531, 32, 51, 47, 49, 52>>,  \* "日本語のレッスン 3/14"
    <<42, 32, 12397, 12371, 32, 45, 32, 99, 97, 116>>,  \* "* ねこ - cat"
    <<42, 32, 34892, 12367>>,  \* "* 行く"
    <<42, 32, 34892, 12367, 32, 45, 32, 103, 111, 32, 98, 121, 32, 116, 114, 97, 105, 110>> }  \* "* 行く - go by train"

\* Lines of specification SpecStable: a date header and entry lines of three
\* base texts, one of them twice.
StableCatalogue ==
  { <<50, 48, 50, 51, 45, 48, 49, 45, 49, 53>>,  \* "2023-01-15"
    <<42, 32, 34892, 12367>>,  \* "* 行く"
    <<42, 32, 12397, 12371, 32, 45, 32, 99, 97, 116>>,  \* "* ねこ - cat"
    <<42, 32, 20170, 26085>>,  \* "* 今日"
    <<42, 32, 34892, 12367, 32, 45, 32, 103, 111, 32, 98, 121, 32, 116, 114, 97, 105, 110>> }  \* "* 行く - go by train"

\* Lines of specification SpecGroup: entry lines of three base texts, two of
\* them with and without reading or translation.
GroupCatalogue ==
  { <<42, 32, 35079, 38609, 12391, 12377>>,  \* phrase, level N3, one pattern
    <<42, 32, 35079, 38609, 65288, 12405, 12367, 12374, 12388, 65289, 12391, 12377, 32, 45, 32, 105, 116, 32, 105, 115, 32, 99, 111, 109, 112, 108, 105, 99, 97, 116, 101, 100>>,  \* the same base text
    <<42, 32, 22259, 26360, 39208, 12364, 22909, 12365, 12391, 12377>>,  \* phrase, level N5, two patterns
    <<42, 32, 22259, 26360, 39208, 12364, 22909, 12365, 12391, 12377, 32, 45, 32, 73, 32, 108, 105, 107, 101, 32, 116, 104, 101, 32, 108, 105, 98, 114, 97, 114, 121>>,  \* the same base text
    <<42, 32, 12397, 12371, 32, 45, 32, 99, 97, 116>> }  \* vocab, no level, no pattern

\* Lines of specification SpecYear: lines with a year token, with and without
\* a year unit, a date-header pattern and a bullet.
YearCatalogue ==
  { <<12494, 12540, 12488, 32, 50, 48, 50, 48>>,  \* a year token and nothing else
    <<50, 48, 50, 53, 45, 48, 54, 45, 48, 49>>,  \* ISO date header
    <<50, 48, 65298, 65301, 45, 65296, 65302, 45, 65296, 65297>>,  \* ISO date header, full-width digits
    <<50, 48, 50, 52, 24180, 32, 26085, 26412, 35486, 12398, 12524, 12483, 12473, 12531, 32, 51, 47, 49, 52>>,  \* year unit and old-format header
    <<26085, 26412, 35486, 12398, 12524, 12483, 12473, 12531, 32, 55, 47, 52, 32, 50, 48, 50, 54>>,  \* old-format header and a year token
    <<42, 32, 50, 48, 50, 50, 24180, 12363, 12425, 50, 48, 50, 52, 24180, 12414, 12391, 32, 45, 32, 102, 114, 111, 109, 32, 50, 48, 50, 50, 32, 116, 111, 32, 50, 48, 50, 52>>,  \* bullet, two year tokens, year unit
    <<42, 32, 12397, 12371, 32, 45, 32, 99, 97, 116>> }  \* an entry line

\* Lines of specification SpecEnrich: entries with and without reading,
\* translation and level, of kind vocab and of another kind.
EnrichCatalogue ==
  { <<42, 32, 34892, 12367>>,  \* vocab; level N5, no reading, no translation
    <<42, 32, 12397, 12371, 32, 45, 32, 99, 97, 116>>,  \* vocab; reading and translation, no level
    <<42, 32, 29483, 32, 45, 32, 99, 97, 116>>,  \* vocab; translation only
    <<42, 32, 22259, 26360, 39208>>,  \* vocab; none of the three
    <<42, 32, 22259, 26360, 39208, 12392, 37109, 20415, 23616, 12392, 20844, 22290>> }  \* phrase; none of the three, base word 図書館

\* The dates datetime.now() may give.
Today == { <<50, 48, 50, 54, 45, 48, 49, 45, 48, 49>>, <<50, 48, 50, 54, 45, 49, 50, 45, 51, 49>> }  \* "2026-01-01" "2026-12-31"

\* The files of up to n lines over a catalogue.
Files(catalogue, n) == UNION {[1 .. k -> catalogue] : k \in 0 .. n}

(***************************************************************************)
(* parse_file as a state machine.                                          *)
(***************************************************************************)
VARIABLES
  lines,          \* the lines of the input file (f.readlines())
  line_num,       \* number of lines the loop has processed
  current_date,   \* optional string
  current_year,   \* string
  raw_entries,    \* the provisional entries, in file order
  stats,          \* the statistics record
  entries,        \* the final collection returned by parse_file
  output,         \* what create_output has written, None before
  pc              \* "parse" while the loop runs, "done" when parse_file has
                  \* returned, then in main "printed", "written"; "error"
                  \* when an exception has ended the run

vars ==
  <<lines, line_num, current_date, current_year, raw_entries, stats, entries, output, pc>>

InitState ==
  /\ line_num = 0
  /\ current_date = None
  /\ current_year = <<50, 48, 50, 51>>  \* "2023"
  /\ raw_entries = <<>>
  /\ stats = [total_lines |-> Len(lines), entries |-> 0, with_reading |-> 0,
              with_english |-> 0, entry_types |-> <<>>, scenarios |-> <<>>,
              lesson_dates |-> {}, duplicates_merged |-> 0, raw_entries |-> 0]
  /\ entries = <<>>
  /\ output = None
  /\ pc = "parse"

Init == lines \in Files(Catalogue, MaxLines) /\ InitState

InitMerge == lines \in Files(MergeCatalogue, MaxLines) /\ InitState

InitOrder == lines \in Files(OrderCatalogue, MaxOrderLines) /\ InitState

InitEntry == lines \in Files(EntryCatalogue, MaxEntryLines) /\ InitState

InitAnnotate == lines \in Files(AnnotateCatalogue, MaxAnnotateLines) /\ InitState

InitEnrich == lines \in Files(EnrichCatalogue, MaxEnrichLines) /\ InitState

InitYear == lines \in Files(YearCatalogue, MaxYearLines) /\ InitState

InitStable == lines \in Files(StableCatalogue, MaxStableLines) /\ InitState

InitGroup == lines \in Files(GroupCatalogue, MaxGroupLines) /\ InitState

InitMain == lines \in Files(MainCatalogue, MaxMainLines) /\ InitState

InitDup == lines \in Files(DupCatalogue, MaxDupLines) /\ InitState

\* The last 20xx token of a line, None if there is none.
year_match_last(line) ==
  LET group1(S) ==
        IF S = {} THEN None
        ELSE Some(Slice(line, CHOOSE i \in S : \A j \in S : j <= i,
                        (CHOOSE i \in S : \A j \in S : j <= i) + 3))
  IN  group1({i \in 1 .. Len(line) :
                /\ At(line, i) = 50 /\ At(line, i + 1) = 48  \* '2' '0'
                /\ IsDigit(At(line, i + 2)) /\ IsDigit(At(line, i + 3))})

\* year_match = re.search(r'(20\d{2})', line): None, or Some of group(1) of
\* the first match.
year_match(line) ==
  LET group1(i) == IF i = 0 THEN None ELSE Some(Slice(line, i, i + 3))
  IN  group1(Least({i \in 1 .. Len(line) :
                      /\ At(line, i) = 50 /\ At(line, i + 1) = 48  \* '2' '0'
                      /\ IsDigit(At(line, i + 2)) /\ IsDigit(At(line, i + 3))}))

\* A line taken as a year marker only when it is no date header.
IsYearMarkerUnlessHeader(line) ==
  /\ ~IsNone(year_match(line)) /\ (Contains(line, <<24180>>) \/ Contains(line, <<12397, 12435>>))  \* "年" "ねん"
  /\ ~Truthy(parse_lesson_date(line)[1])

\* year_match and ('年' in line or 'ねん' in line)
IsYearMarker(line) ==
  ~IsNone(year_match(line)) /\ (Contains(line, <<24180>>) \/ Contains(line, <<12397, 12435>>))  \* "年" "ねん"

\* if date_result:
IsDateHeader(line) == Truthy(parse_lesson_date(line)[1])

\* line.startswith('*') or (line.startswith(' ') and '*' in line)
IsEntryLine(line) ==
  StartsWith(line, <<42>>) \/ (StartsWith(line, <<32>>) /\ Contains(line, <<42>>))  \* "*" " " "*"

\* An entry whose level is detected in its reading when it has one.
MakeEntryLevelOfReading(line, date, n) ==
  LET entry(p) ==
        [japanese |-> p.japanese,
         reading |-> p.reading,
         english |-> p.english,
         entry_type |-> detect_entry_type(p.japanese, p.english),
         lesson_date |-> date,
         tags |-> detect_scenarios(p.japanese, p.english),
         grammar_patterns |-> detect_grammar_patterns(p.japanese),
         jlpt_level |->
           detect_jlpt_level(IF IsNone(p.reading) THEN p.japanese ELSE Val(p.reading),
                             p.reading, p.english),
         context_note |-> None,
         is_sub_entry |-> StartsWith(line, <<32>>) \/ StartsWith(line, <<9>>),  \* " "
         source_line |-> n]
      built(parsed) ==
        IF IsNone(parsed) \/ Val(parsed).japanese = <<>> THEN None
        ELSE Some(entry(Val(parsed)))
      bullet(stripped) ==
        IF ~StartsWith(stripped, <<42>>) THEN None ELSE built(parse_entry_line(stripped))  \* "*"
  IN  bullet(LStrip(line))

\* The entry the loop body builds from an entry line, None when it skips it:
\* line is the stripped line.
MakeEntry(line, date, n) ==
  LET entry(p) ==
        [japanese |-> p.japanese,
         reading |-> p.reading,
         english |-> p.english,
         entry_type |-> detect_entry_type(p.japanese, p.english),
         lesson_date |-> date,
         tags |-> detect_scenarios(p.japanese, p.english),
         grammar_patterns |-> detect_grammar_patterns(p.japanese),
         jlpt_level |-> detect_jlpt_level(p.japanese, p.reading, p.english),
         context_note |-> None,
         \* tested on the line as the loop left it, i.e. already stripped
         is_sub_entry |-> StartsWith(line, <<32>>) \/ StartsWith(line, <<9>>),  \* " "
         source_line |-> n]
      built(parsed) ==
        IF IsNone(parsed) \/ Val(parsed).japanese = <<>> THEN None
        ELSE Some(entry(Val(parsed)))
      bullet(stripped) ==
        IF ~StartsWith(stripped, <<42>>) THEN None ELSE built(parse_entry_line(stripped))  \* "*"
  IN  bullet(LStrip(line))

\* What the loop body computes from a line alone, whatever the state: the
\* stripped line, the tests it makes on it, and the entry it builds (with the
\* date and line number still to fill in).  Tabulated once over the lines of
\* the catalogues.
Scan(raw) ==
  LET scan(line) ==
        [line |-> line,
         year_marker |-> IsYearMarker(line),
         year |-> year_match(line),
         date_header |-> IsDateHeader(line),
         date |-> parse_lesson_date(line),
         entry_line |-> IsEntryLine(line),
         entry |-> MakeEntry(line, None, 0)]
  IN  scan(Strip(raw))

AllLines ==
  Catalogue \cup MergeCatalogue \cup DupCatalogue \cup EntryCatalogue
    \cup AnnotateCatalogue \cup MainCatalogue \cup EnrichCatalogue
    \cup YearCatalogue \cup StableCatalogue \cup GroupCatalogue

Scanned == {<<raw, Scan(raw)>> : raw \in AllLines}

\* The tabulated scan of a line of the catalogues.
ScanOf(raw) == (CHOOSE p \in Scanned : p[1] = raw)[2]

\* The line the loop is at.
Cur == ScanOf(lines[line_num + 1])

InLoop == pc = "parse" /\ line_num < Len(lines)

\* The iterations that end in continue with nothing changed: an empty line, a
\* line that is no marker, header or entry, and an entry line that yields no
\* entry.
SkipLine(c) ==
  /\ InLoop
  /\ \/ c.line = <<>>
     \/ /\ ~c.year_marker /\ ~c.date_header
        /\ (~c.entry_line \/ IsNone(c.entry))
  /\ line_num' = line_num + 1
  /\ UNCHANGED <<lines, current_date, current_year, raw_entries, stats, entries, output, pc>>

\* A year marker: current_year = year_match.group(1).
YearMarker(c) ==
  /\ InLoop
  /\ c.line # <<>>
  /\ c.year_marker
  /\ current_year' = Val(c.year)
  /\ line_num' = line_num + 1
  /\ UNCHANGED <<lines, current_date, raw_entries, stats, entries, output, pc>>

\* The date of an old-format header left without its year.
HeaderDateWithoutYear(date_result, needs_year, year) == date_result

\* The date a header sets, and the year it leaves.
HeaderDate(date_result, needs_year, year) ==
  IF needs_year THEN year \o <<45>> \o date_result ELSE date_result  \* "-"

\* The year left as it is by every header.
HeaderYearKept(date_result, needs_year, year) == year

HeaderYear(date_result, needs_year, year) ==
  IF needs_year THEN year ELSE Slice(date_result, 1, 4)

\* A header that also dates the entries met before any header.
DateHeaderBackfill(c) ==
  /\ InLoop
  /\ c.line # <<>>
  /\ ~c.year_marker
  /\ c.date_header
  /\ current_date' = Some(HeaderDate(Val(c.date[1]), c.date[2], current_year))
  /\ current_year' = HeaderYear(Val(c.date[1]), c.date[2], current_year)
  /\ stats' = [stats EXCEPT !.lesson_dates = @ \cup {Val(current_date')}]
  /\ raw_entries' =
       [i \in 1 .. Len(raw_entries) |->
          IF IsNone(raw_entries[i].lesson_date)
          THEN [raw_entries[i] EXCEPT !.lesson_date = current_date']
          ELSE raw_entries[i]]
  /\ line_num' = line_num + 1
  /\ UNCHANGED <<lines, entries, output, pc>>

\* A lesson-date header.
DateHeader(c) ==
  /\ InLoop
  /\ c.line # <<>>
  /\ ~c.year_marker
  /\ c.date_header
  /\ current_date' = Some(HeaderDate(Val(c.date[1]), c.date[2], current_year))
  /\ current_year' = HeaderYear(Val(c.date[1]), c.date[2], current_year)
  /\ stats' = [stats EXCEPT !.lesson_dates = @ \cup {Val(current_date')}]
  /\ line_num' = line_num + 1
  /\ UNCHANGED <<lines, raw_entries, entries, output, pc>>

\* An entry line that yields an entry.
EntryLine(c) ==
  /\ InLoop
  /\ c.line # <<>>
  /\ ~c.year_marker
  /\ ~c.date_header
  /\ c.entry_line
  /\ ~IsNone(c.entry)
  /\ raw_entries' =
       Append(raw_entries,
              [Val(c.entry) EXCEPT !.lesson_date = current_date,
                                   !.source_line = line_num + 1])
  /\ stats' = [stats EXCEPT !.raw_entries = @ + 1]
  /\ line_num' = line_num + 1
  /\ UNCHANGED <<lines, current_date, current_year, entries, output, pc>>

\* f"entry_{i:05d}"
EntryId(i) == <<101, 110, 116, 114, 121, 95>> \o Format05d(i)  \* "entry_"

\* entry['id'] = ...
WithId(e, i) ==
  [japanese |-> e.japanese, reading |-> e.reading, english |-> e.english,
   entry_type |-> e.entry_type, lesson_date |-> e.lesson_date, tags |-> e.tags,
   grammar_patterns |-> e.grammar_patterns, jlpt_level |-> e.jlpt_level,
   context_note |-> e.context_note, is_sub_entry |-> e.is_sub_entry,
   source_line |-> e.source_line, id |-> EntryId(i)]

\* A defaultdict(int) counting the occurrences of the elements of a list, as
\* the list of its <<key, count>> items in insertion order.
RECURSIVE Counts(_, _)
Counts(s, counted) ==
  IF s = <<>> THEN counted
  ELSE Counts(Tail(s),
              IF \E i \in 1 .. Len(counted) : counted[i][1] = s[1]
              THEN [i \in 1 .. Len(counted) |->
                      IF counted[i][1] = s[1] THEN <<s[1], counted[i][2] + 1>>
                      ELSE counted[i]]
              ELSE Append(counted, <<s[1], 1>>))

\* The ids counted from 0.
AssignIdsFromZero(es) == [i \in 1 .. Len(es) |-> WithId(es[i], i - 1)]

\* for i, entry in enumerate(entries, 1): entry['id'] = ...
AssignIds(es) == [i \in 1 .. Len(es) |-> WithId(es[i], i)]

\* The statistics the loop over the final entries leaves.
FinalStats(es, duplicates_merged) ==
  [stats EXCEPT
     !.duplicates_merged = duplicates_merged,
     !.entries = Len(es),
     !.with_reading = Len(SelectSeq(es, LAMBDA e : Truthy(e.reading))),
     !.with_english = Len(SelectSeq(es, LAMBDA e : Truthy(e.english))),
     !.entry_types = Counts([i \in 1 .. Len(es) |-> es[i].entry_type], <<>>),
     !.scenarios = Counts(Join([i \in 1 .. Len(es) |-> es[i].tags]), <<>>)]

\* parse_file's return value for what deduplicate_entries returned.
Finish(deduplicated) ==
  /\ entries' = AssignIds(deduplicated[1])
  /\ stats' = FinalStats(deduplicated[1], deduplicated[2])

\* After the loop: deduplicate and merge, assign the ids in the order of the
\* deduplicated list, and count.  The string-hash seed of the process is any.
FinishParse ==
  /\ pc = "parse"
  /\ line_num = Len(lines)
  /\ \E h \in HashSeeds : Finish(deduplicate_entries(raw_entries, h))
  /\ pc' = "done"
  /\ UNCHANGED <<lines, line_num, current_date, current_year, raw_entries, output>>

\* main after parse_file: the statistics are printed, with the percentages
\* 100*stats['with_reading']/stats['entries'] and the like, which raise
\* ZeroDivisionError when there is no entry.
PrintStatistics ==
  /\ pc = "done"
  /\ pc' = IF stats.entries = 0 THEN "error" ELSE "printed"
  /\ UNCHANGED <<lines, line_num, current_date, current_year, raw_entries, stats,
                 entries, output>>

\* The metadata with the count of the entries that have a reading given as
\* the count of those that miss it.
MetadataMissingAsWith(today) ==
  [version |-> <<50, 46, 48>>,  \* "2.0"
   created_date |-> today,
   total_entries |-> Len(entries),
   entries_with_reading |-> stats.with_reading,
   entries_with_english |-> stats.with_english,
   entries_missing_reading |-> stats.with_reading,
   entries_missing_english |-> stats.entries - stats.with_english,
   lesson_count |-> Cardinality(stats.lesson_dates),
   source |-> <<80, 97, 114, 115, 101, 100, 32, 102, 114, 111, 109, 32, 26085, 26412, 35486, 12398, 12524, 12483, 12473, 12531, 12494, 12540, 12488, 46, 116, 120, 116>>]  \* "Parsed from 日本語のレッスンノート.txt"

\* The metadata of create_output.
Metadata(today) ==
  [version |-> <<50, 46, 48>>,  \* "2.0"
   created_date |-> today,
   total_entries |-> Len(entries),
   entries_with_reading |-> stats.with_reading,
   entries_with_english |-> stats.with_english,
   entries_missing_reading |-> stats.entries - stats.with_reading,
   entries_missing_english |-> stats.entries - stats.with_english,
   lesson_count |-> Cardinality(stats.lesson_dates),
   source |-> <<80, 97, 114, 115, 101, 100, 32, 102, 114, 111, 109, 32, 26085, 26412, 35486, 12398, 12524, 12483, 12473, 12531, 12494, 12540, 12488, 46, 116, 120, 116>>]  \* "Parsed from 日本語のレッスンノート.txt"

\* An output whose lesson_count is the number of the dates of the records.
CreateOutputCountingRecords(today) ==
  /\ pc = "printed"
  /\ output' =
       Some([metadata |->
               [Metadata(today) EXCEPT
                  !.lesson_count =
                    Cardinality({e.lesson_date : e \in Range(entries)} \ {None})],
             entries |-> entries])
  /\ pc' = "written"
  /\ UNCHANGED <<lines, line_num, current_date, current_year, raw_entries, stats, entries>>

\* create_output, called by main after the statistics.
CreateOutput(today) ==
  /\ pc = "printed"
  /\ output' = Some([metadata |-> Metadata(today), entries |-> entries])
  /\ pc' = "written"
  /\ UNCHANGED <<lines, line_num, current_date, current_year, raw_entries, stats, entries>>

(***************************************************************************)
(* The enrichment scripts, run on the file create_output has written.      *)
(***************************************************************************)
\* What fetch_from_jisho may return for a word: each of reading, english and
\* jlpt_level a string or None (all None on any failure).
JishoResults ==
  { [reading |-> None, english |-> None, jlpt_level |-> None],
    [reading |-> Some(<<12424, 12415>>), english |-> Some(<<109, 101, 97, 110, 105, 110, 103>>), jlpt_level |-> Some("N4")],  \* "よみ" "meaning"
    [reading |-> Some(<<12424, 12415>>), english |-> None, jlpt_level |-> None],  \* "よみ"
    [reading |-> Some(<<>>), english |-> Some(<<109, 101, 97, 110, 105, 110, 103>>), jlpt_level |-> Some("N4")] }  \* "" "meaning"

\* What fetch_jlpt_from_jisho may return for a word.
JishoLevels == { None, Some(""), Some("N4") }

\* The dates of the runs of specification SpecEnrich.
EnrichDays == { <<50, 48, 50, 54, 45, 49, 50, 45, 51, 49>> }  \* "2026-12-31"

\* --limit
Limits == 0 .. 1

\* Truth value of an optional level: neither None nor ''.
TruthyLevel(o) == ~IsNone(o) /\ Val(o) # ""

\* A record with field k set to v, whether it had the field or not.
SetField(r, k, v) == [x \in DOMAIN r \cup {k} |-> IF x = k THEN v ELSE r[x]]

\* needs_enrichment[:args.limit] if args.limit > 0
Limited(needs, limit) ==
  IF limit > 0 THEN Slice(needs, 1, IF limit < Len(needs) THEN limit ELSE Len(needs))
  ELSE needs

\* The indices of the entries enrich_vocab looks up, in order.
NeedsEnrichment(es, vocab_only) ==
  SelectSeq([i \in 1 .. Len(es) |-> i],
            LAMBDA i : /\ ~(vocab_only /\ es[i].entry_type # "vocab")
                       /\ (IsNone(es[i].reading) \/ IsNone(es[i].english)))

\* An entry updated with whatever the lookup found.
EnrichedVocabEntryOverwrite(e, found) ==
  [e EXCEPT
     !.reading = IF Truthy(found.reading) THEN found.reading ELSE @,
     !.english = IF Truthy(found.english) THEN found.english ELSE @,
     !.jlpt_level = IF TruthyLevel(found.jlpt_level) THEN found.jlpt_level ELSE @]

\* Update entry with found data: a field is set when the entry needs it and
\* the lookup has it.
EnrichedVocabEntry(e, found) ==
  [e EXCEPT
     !.reading = IF IsNone(e.reading) /\ Truthy(found.reading) THEN found.reading ELSE @,
     !.english = IF IsNone(e.english) /\ Truthy(found.english) THEN found.english ELSE @,
     !.jlpt_level =
       IF IsNone(e.jlpt_level) /\ TruthyLevel(found.jlpt_level) THEN found.jlpt_level ELSE @]

\* The metadata enrich_vocab writes for the entries es.
VocabMetadata(md, es, today) ==
  SetField(
    [md EXCEPT
       !.entries_with_reading = Len(SelectSeq(es, LAMBDA e : Truthy(e.reading))),
       !.entries_with_english = Len(SelectSeq(es, LAMBDA e : Truthy(e.english))),
       !.entries_missing_reading = Len(SelectSeq(es, LAMBDA e : ~Truthy(e.reading))),
       !.entries_missing_english = Len(SelectSeq(es, LAMBDA e : ~Truthy(e.english)))],
    "vocab_enriched_date", today)

\* The data enrich_vocab saves: jisho gives the lookup result of each base
\* text looked up (the cache makes it one result per text).
EnrichedVocab(data, needs, jisho, today) ==
  LET saved(es) ==
        [metadata |-> VocabMetadata(data.metadata, es, today), entries |-> es]
  IN  saved([i \in 1 .. Len(data.entries) |->
               IF i \in Range(needs)
               THEN EnrichedVocabEntry(data.entries[i], jisho[data.entries[i].japanese])
               ELSE data.entries[i]])

\* A run of enrich_vocab.py on the output file, with the arguments --limit
\* and --all-types; it returns without saving when no entry needs enrichment.
EnrichVocab(limit, vocab_only, today) ==
  /\ ~IsNone(output)
  /\ LET run(data, needs) ==
           IF needs = <<>> THEN output' = output
           ELSE \E jisho \in [{data.entries[i].japanese : i \in Range(needs)} -> JishoResults] :
                  output' = Some(EnrichedVocab(data, needs, jisho, today))
     IN  run(Val(output), Limited(NeedsEnrichment(Val(output).entries, vocab_only), limit))
  /\ UNCHANGED <<lines, line_num, current_date, current_year, raw_entries, stats,
                 entries, pc>>

\* re.split on a set of single characters.
RECURSIVE SplitOn(_, _, _)
SplitOn(s, seps, part) ==
  IF s = <<>> THEN <<part>>
  ELSE IF Head(s) \in seps THEN <<part>> \o SplitOn(Tail(s), seps, <<>>)
  ELSE SplitOn(Tail(s), seps, Append(part, Head(s)))

\* [をがはにでとも、\s]
Particles == Range(<<12434, 12364, 12399, 12395, 12391, 12392, 12418, 12289>>) \cup WhiteSpace  \* "をがはにでとも、"

\* extract_base_word: the word looked up for a base text.
extract_base_word(japanese) ==
  LET first(text, parts) == IF parts # <<>> THEN parts[1] ELSE Slice(text, 1, 6)
      base(text) ==
        IF Len(text) <= 6 THEN text
        ELSE first(text, SelectSeq(SplitOn(text, Particles, <<>>), LAMBDA q : Len(q) >= 2))
  IN  base(Strip(japanese))

\* The indices of the entries enrich_jlpt looks up, in order.
NeedsJlpt(es) ==
  SelectSeq([i \in 1 .. Len(es) |-> i], LAMBDA i : IsNone(es[i].jlpt_level))

\* if level: entry['jlpt_level'] = level
EnrichedJlptEntry(e, level) ==
  IF TruthyLevel(level) THEN [e EXCEPT !.jlpt_level = level] ELSE e

\* The metadata enrich_jlpt writes for the entries es.
JlptMetadata(md, es, today) ==
  SetField(SetField(md, "entries_with_jlpt",
                    Len(SelectSeq(es, LAMBDA e : TruthyLevel(e.jlpt_level)))),
           "jlpt_enriched_date", today)

\* The data enrich_jlpt saves: jisho gives the level of each base word looked
\* up (the cache makes it one level per word).
EnrichedJlpt(data, needs, jisho, today) ==
  LET saved(es) ==
        [metadata |-> JlptMetadata(data.metadata, es, today), entries |-> es]
  IN  saved([i \in 1 .. Len(data.entries) |->
               IF i \in Range(needs)
               THEN EnrichedJlptEntry(data.entries[i],
                                      jisho[extract_base_word(data.entries[i].japanese)])
               ELSE data.entries[i]])

\* A run of enrich_jlpt.py on the output file, with the argument --limit.
EnrichJlpt(limit, today) ==
  /\ ~IsNone(output)
  /\ LET run(data, needs) ==
           \E jisho \in [{extract_base_word(data.entries[i].japanese) : i \in Range(needs)}
                           -> JishoLevels] :
             output' = Some(EnrichedJlpt(data, needs, jisho, today))
     IN  run(Val(output), Limited(NeedsJlpt(Val(output).entries), limit))
  /\ UNCHANGED <<lines, line_num, current_date, current_year, raw_entries, stats,
                 entries, pc>>

Next ==
  SkipLine(Cur) \/ YearMarker(Cur) \/ DateHeader(Cur) \/ EntryLine(Cur) \/ FinishParse

Spec == Init /\ [][Next]_vars

SpecYear == InitYear /\ [][Next]_vars

\* The files of SpecMerge hold date headers and entry lines only, and those of
\* SpecDup entry lines only: the other iterations of the loop never occur in
\* them.
NextMerge == DateHeader(Cur) \/ EntryLine(Cur) \/ FinishParse

SpecMerge == InitMerge /\ [][NextMerge]_vars

SpecOrder == InitOrder /\ [][NextMerge]_vars

SpecStable == InitStable /\ [][NextMerge]_vars

\* The files of SpecEntry hold entry lines only, of which some yield no entry.
NextEntry == SkipLine(Cur) \/ EntryLine(Cur) \/ FinishParse

SpecEntry == InitEntry /\ [][NextEntry]_vars

\* main: parse_file, the statistics, create_output.
NextMain ==
  \/ SkipLine(Cur) \/ DateHeader(Cur) \/ EntryLine(Cur) \/ FinishParse
  \/ PrintStatistics
  \/ \E today \in Today : CreateOutput(today)

SpecMain == InitMain /\ [][NextMain]_vars

\* The parser's run on a file of entry lines, then any number of runs of the
\* enrichment scripts on its output.
NextEnrich ==
  \/ EntryLine(Cur) \/ FinishParse
  \/ PrintStatistics
  \/ \E today \in EnrichDays : CreateOutput(today)
  \/ \E limit \in Limits : \E vocab_only \in BOOLEAN : \E today \in EnrichDays :
       EnrichVocab(limit, vocab_only, today)
  \/ \E limit \in Limits : \E today \in EnrichDays : EnrichJlpt(limit, today)

SpecEnrich == InitEnrich /\ [][NextEnrich]_vars

NextDup == EntryLine(Cur) \/ FinishParse

SpecDup == InitDup /\ [][NextDup]_vars

SpecGroup == InitGroup /\ [][NextDup]_vars

\* The files of SpecAnnotate hold entry lines only, each of which yields an
\* entry.
SpecAnnotate == InitAnnotate /\ [][NextDup]_vars

(***************************************************************************)
(* Properties.                                                             *)
(***************************************************************************)
\* parse_file has returned.
Done == pc = "done"

\* The provisional entries with base text j, in file order.
Members(j) == SelectSeq(raw_entries, LAMBDA e : e.japanese = j)

\* The orders of the elements of a set.
RECURSIVE PermSeqs(_)
PermSeqs(S) ==
  IF S = {} THEN {<<>>}
  ELSE UNION {{<<x>> \o p : p \in PermSeqs(S \ {x})} : x \in S}

\* The provisional entries in the order p.
Permuted(p) == [i \in 1 .. Len(p) |-> raw_entries[p[i]]]

\* Two merged records agree on every field the merge computes.
SameMerged(x, y) ==
  /\ x.reading = y.reading
  /\ x.english = y.english
  /\ x.entry_type = y.entry_type
  /\ Range(x.tags) = Range(y.tags)
  /\ Range(x.grammar_patterns) = Range(y.grammar_patterns)
  /\ x.jlpt_level = y.jlpt_level
  /\ x.lesson_date = y.lesson_date

\* Two merged records agree on the fields that do not depend on which member
\* came first; of reading and translation, on presence and on the length of
\* the translation.
SameMergedUpToFirst(x, y) ==
  /\ IsNone(x.reading) <=> IsNone(y.reading)
  /\ IsNone(x.english) <=> IsNone(y.english)
  /\ ~IsNone(x.english) => Len(Val(x.english)) = Len(Val(y.english))
  /\ x.entry_type = y.entry_type
  /\ Range(x.tags) = Range(y.tags)
  /\ Range(x.grammar_patterns) = Range(y.grammar_patterns)
  /\ x.jlpt_level = y.jlpt_level
  /\ x.lesson_date = y.lesson_date

\* Two final collections hold the same base texts and, for each, records that
\* agree on every field the merge computes.
SameResult(a, b) ==
  /\ {e.japanese : e \in Range(a)} = {e.japanese : e \in Range(b)}
  /\ \A i \in 1 .. Len(a) : \A k \in 1 .. Len(b) :
       a[i].japanese = b[k].japanese => SameMerged(a[i], b[k])

\* Two final collections hold the same base texts and, for each, records that
\* agree up to which member came first.
SameResultUpToFirst(a, b) ==
  /\ {e.japanese : e \in Range(a)} = {e.japanese : e \in Range(b)}
  /\ \A i \in 1 .. Len(a) : \A k \in 1 .. Len(b) :
       a[i].japanese = b[k].japanese => SameMergedUpToFirst(a[i], b[k])

\* C1 as stated: merging the provisional entries in any other order yields,
\* for every base text, the same reading, translation, kind, topics and
\* grammar patterns (as sets), level and lesson date.
C1_OrderIndependent ==
  Done =>
    \A p \in PermSeqs(1 .. Len(raw_entries)) :
      SameResult(entries, deduplicate_entries(Permuted(p), 0)[1])

\* C1 amended: merging the provisional entries in any other order yields the
\* same base texts and, for every base text, the same kind, topics and grammar
\* patterns (as sets), level and lesson date; reading and translation are
\* present in both results or in neither and the translations are equally
\* long, but their values are those of the first member met and may differ.
C1_OrderIndependentUpToFirst ==
  Done =>
    \A p \in PermSeqs(1 .. Len(raw_entries)) :
      SameResultUpToFirst(entries, deduplicate_entries(Permuted(p), 0)[1])

\* A group of two members with different dates, readings and translations has
\* been merged, and another order of the entries gives another reading.
C1_Witness ==
  /\ Done
  /\ Len(raw_entries) = 2
  /\ Len(entries) = 1
  /\ raw_entries[1].lesson_date # raw_entries[2].lesson_date
  /\ ~IsNone(raw_entries[1].lesson_date) /\ ~IsNone(raw_entries[2].lesson_date)
  /\ ~IsNone(raw_entries[1].reading) /\ ~IsNone(raw_entries[2].reading)
  /\ raw_entries[1].reading # raw_entries[2].reading
  /\ deduplicate_entries(Permuted(<<2, 1>>), 0)[1][1].reading # entries[1].reading
  /\ deduplicate_entries(Permuted(<<2, 1>>), 0)[1][1].lesson_date = entries[1].lesson_date

\* C2: no two records of the final collection have the same base text.
C2_UniqueBaseText ==
  Done =>
    \A i \in 1 .. Len(entries) : \A k \in 1 .. Len(entries) :
      entries[i].japanese = entries[k].japanese => i = k

\* Four provisional entries of two base texts, one of them three times, have
\* been deduplicated to two records.
C2_Witness ==
  /\ Done
  /\ Len(raw_entries) = 4
  /\ Len(entries) = 2
  /\ \E i \in 1 .. 4 : Len(Members(raw_entries[i].japanese)) = 3

\* The least of a non-empty set of dates, by comparison of the strings.
EarliestOf(dates) == CHOOSE d \in dates : \A e \in dates : StrLeq(d, e)

\* The dates of the members of the group of base text j.
DatesOf(j) ==
  {Val(e.lesson_date) : e \in {m \in Range(Members(j)) : ~IsNone(m.lesson_date)}}

\* C3: a final record's lesson date is the least date of the members of its
\* group, and absent only if every member's date is absent.
C3_EarliestDate ==
  Done =>
    \A i \in 1 .. Len(entries) :
      IF DatesOf(entries[i].japanese) = {} THEN IsNone(entries[i].lesson_date)
      ELSE entries[i].lesson_date = Some(EarliestOf(DatesOf(entries[i].japanese)))

\* The scenario of the specification: A of 2023-02-01 without translation, then
\* B of 2023-01-15 with translation "to go", merged to 2023-01-15 and "to go".
C3_Witness ==
  /\ Done
  /\ Len(raw_entries) = 2
  /\ raw_entries[1].japanese = <<34892, 12367>>  \* "行く"
  /\ raw_entries[2].japanese = <<34892, 12367>>  \* "行く"
  /\ raw_entries[1].lesson_date = Some(<<50, 48, 50, 51, 45, 48, 50, 45, 48, 49>>)  \* "2023-02-01"
  /\ raw_entries[1].english = None
  /\ raw_entries[2].lesson_date = Some(<<50, 48, 50, 51, 45, 48, 49, 45, 49, 53>>)  \* "2023-01-15"
  /\ raw_entries[2].english = Some(<<116, 111, 32, 103, 111>>)  \* "to go"
  /\ Len(entries) = 1
  /\ entries[1].lesson_date = Some(<<50, 48, 50, 51, 45, 48, 49, 45, 49, 53>>)  \* "2023-01-15"
  /\ entries[1].english = Some(<<116, 111, 32, 103, 111>>)  \* "to go"

\* C4: the final collection is in non-decreasing order of lesson date, the
\* records without a date after all those with one.
C4_SortedByDate ==
  Done =>
    \A i \in 1 .. Len(entries) : \A k \in 1 .. Len(entries) :
      i < k =>
        /\ IsNone(entries[i].lesson_date) => IsNone(entries[k].lesson_date)
        /\ (~IsNone(entries[i].lesson_date) /\ ~IsNone(entries[k].lesson_date))
             => StrLeq(Val(entries[i].lesson_date), Val(entries[k].lesson_date))

\* Two records, the first met without a date and the second with one, have
\* been sorted into the reverse order.
C4_Witness ==
  /\ Done
  /\ Len(entries) = 2
  /\ Len(raw_entries) = 2
  /\ raw_entries[1].japanese # raw_entries[2].japanese
  /\ IsNone(raw_entries[1].lesson_date)
  /\ ~IsNone(raw_entries[2].lesson_date)
  /\ entries[1].japanese = raw_entries[2].japanese
  /\ entries[2].japanese = raw_entries[1].japanese

\* The translations of the members of the group of base text j, in file order.
TranslationsOf(j) ==
  LET present == SelectSeq(Members(j), LAMBDA e : ~IsNone(e.english))
  IN  [i \in 1 .. Len(present) |-> Val(present[i].english)]

\* C5: a final record's translation is absent iff every member's is; else it
\* is the longest translation of the group, the first of the equally long.
C5_LongestTranslation ==
  Done =>
    \A i \in 1 .. Len(entries) :
      LET ts == TranslationsOf(entries[i].japanese)
      IN  IF ts = <<>> THEN IsNone(entries[i].english)
          ELSE \E n \in 1 .. Len(ts) :
                 /\ entries[i].english = Some(ts[n])
                 /\ \A m \in 1 .. Len(ts) : Len(ts[m]) <= Len(ts[n])
                 /\ \A m \in 1 .. (n - 1) : Len(ts[m]) < Len(ts[n])

\* A group with two different translations of the same length, and no longer
\* one, has been merged: the first met is kept.
C5_Witness ==
  /\ Done
  /\ \E i \in 1 .. Len(entries) :
       LET ts == TranslationsOf(entries[i].japanese)
       IN  /\ Len(ts) >= 2
           /\ ts[1] # ts[2]
           /\ \A m \in 1 .. Len(ts) : Len(ts[m]) = Len(ts[1])
           /\ entries[i].english = Some(ts[1])
           /\ \E m \in Range(Members(entries[i].japanese)) : IsNone(m.english)

\* The readings of the members of the group of base text j, in file order.
ReadingsOf(j) ==
  LET present == SelectSeq(Members(j), LAMBDA e : ~IsNone(e.reading))
  IN  [i \in 1 .. Len(present) |-> Val(present[i].reading)]

\* C6: a final record's reading is that of the first member whose reading is
\* present, and absent iff every member's is.
C6_FirstReading ==
  Done =>
    \A i \in 1 .. Len(entries) :
      LET rs == ReadingsOf(entries[i].japanese)
      IN  IF rs = <<>> THEN IsNone(entries[i].reading)
          ELSE entries[i].reading = Some(rs[1])

\* A group whose first member has no reading and whose later members have two
\* different readings has been merged: the first present reading is kept.
C6_Witness ==
  /\ Done
  /\ \E i \in 1 .. Len(entries) :
       LET ms == Members(entries[i].japanese)
       IN  /\ Len(ms) = 3
           /\ IsNone(ms[1].reading)
           /\ ~IsNone(ms[2].reading) /\ ~IsNone(ms[3].reading)
           /\ ms[2].reading # ms[3].reading
           /\ entries[i].reading = ms[2].reading

\* The sum over a set of base texts of (group size - 1).
RECURSIVE SurplusOver(_)
SurplusOver(js) ==
  IF js = {} THEN 0
  ELSE LET j == CHOOSE x \in js : TRUE
       IN  (Len(Members(j)) - 1) + SurplusOver(js \ {j})

\* C7: duplicates_merged is the sum over the groups of (group size - 1), which
\* is the number of provisional entries minus the number of final records.
C7_DuplicatesMerged ==
  Done =>
    /\ stats.duplicates_merged = SurplusOver({e.japanese : e \in Range(raw_entries)})
    /\ stats.duplicates_merged + Len(entries) = Len(raw_entries)

\* The scenario of the specification: three entries of one base text and two
\* other entries.
C7_Witness ==
  /\ Done
  /\ Len(raw_entries) = 5
  /\ \E i \in 1 .. 5 : Len(Members(raw_entries[i].japanese)) = 3
  /\ Cardinality({e.japanese : e \in Range(raw_entries)}) = 3
  /\ stats.duplicates_merged = 2
  /\ Len(entries) = 3

\* The number a string of ASCII digits stands for.
RECURSIVE Decimal(_)
Decimal(s) ==
  IF s = <<>> THEN 0 ELSE 10 * Decimal(Slice(s, 1, Len(s) - 1)) + (s[Len(s)] - 48)

\* C8: the k-th record of the returned, date-sorted collection has the id
\* "entry_" and k in 5 zero-padded digits, so that the ids increase with the
\* position.
C8_IdsFollowFinalOrder ==
  Done =>
    /\ \A k \in 1 .. Len(entries) :
         /\ Len(entries[k].id) = 11
         /\ Slice(entries[k].id, 1, 6) = <<101, 110, 116, 114, 121, 95>>  \* "entry_"
         /\ \A n \in 7 .. 11 : entries[k].id[n] \in 48 .. 57
         /\ Decimal(Slice(entries[k].id, 7, 11)) = k
    /\ \A i \in 1 .. Len(entries) : \A k \in 1 .. Len(entries) :
         i < k => /\ StrLess(entries[i].id, entries[k].id)
                  /\ StrLeq(SortKey(entries[i]), SortKey(entries[k]))

\* The sort has moved the record met second in the file to the front, and it
\* has the first id.
C8_Witness ==
  /\ Done
  /\ Len(entries) = 2
  /\ entries[1].source_line > entries[2].source_line
  /\ entries[1].id = <<101, 110, 116, 114, 121, 95, 48, 48, 48, 48, 49>>  \* "entry_00001"
  /\ entries[2].id = <<101, 110, 116, 114, 121, 95, 48, 48, 48, 48, 50>>  \* "entry_00002"

\* C9: every provisional entry and every final record has a topic.
C9_TopicsNotEmpty ==
  /\ \A i \in 1 .. Len(raw_entries) : raw_entries[i].tags # <<>>
  /\ \A i \in 1 .. Len(entries) : entries[i].tags # <<>>

\* An entry whose only topic is general and an entry of the same base text
\* with other topics have been merged: general is gone, the others stay.
C9_Witness ==
  /\ Done
  /\ \E i \in 1 .. Len(entries) :
       /\ \E m \in Range(Members(entries[i].japanese)) : m.tags = <<"general">>
       /\ \E m \in Range(Members(entries[i].japanese)) : "general" \notin Range(m.tags)
       /\ "general" \notin Range(entries[i].tags)
       /\ entries[i].tags # <<>>

\* Line n of the file is a year marker, an ISO date header, an old-format
\* header, as the loop takes it.
IsYearMarkerLine(n) == ScanOf(lines[n]).line # <<>> /\ ScanOf(lines[n]).year_marker

IsHeaderLine(n, needs_year) ==
  /\ ScanOf(lines[n]).line # <<>>
  /\ ~ScanOf(lines[n]).year_marker
  /\ ScanOf(lines[n]).date_header
  /\ ScanOf(lines[n]).date[2] = needs_year

\* The year in force after the first n lines: that of the last year marker or
\* ISO date header among them, 2023 if there is none.
RECURSIVE RunningYear(_)
RunningYear(n) ==
  IF n = 0 THEN <<50, 48, 50, 51>>  \* "2023"
  ELSE IF IsYearMarkerLine(n) THEN Val(ScanOf(lines[n]).year)
  ELSE IF IsHeaderLine(n, FALSE) THEN Slice(ScanOf(lines[n]).line, 1, 4)
  ELSE RunningYear(n - 1)

\* C10: an old-format header M/D sets the date to the year in force before it,
\* then MM-DD.
C10_YearCarriedForward ==
  (line_num >= 1 /\ IsHeaderLine(line_num, TRUE)) =>
    current_date =
      Some(RunningYear(line_num - 1) \o <<45>> \o Val(ScanOf(lines[line_num]).date[1]))  \* "-"

\* The scenario of the specification: 3/14 after the year marker 2024 gave
\* 2024-03-14, and 7/4 after the ISO header 2025-06-01 gives 2025-07-04.
C10_Witness ==
  /\ lines = <<<<50, 48, 50, 52, 24180>>, <<26085, 26412, 35486, 12398, 12524, 12483, 12473, 12531, 32, 51, 47, 49, 52>>, <<50, 48, 50, 53, 45, 48, 54, 45, 48, 49>>, <<26085, 26412, 35486, 12398, 12524, 12483, 12473, 12531, 32, 55, 47, 52>>>>  \* "2024年" "日本語のレッスン 3/14" "2025-06-01" "日本語のレッスン 7/4"
  /\ line_num = 4
  /\ <<50, 48, 50, 52, 45, 48, 51, 45, 49, 52>> \in stats.lesson_dates  \* "2024-03-14"
  /\ current_date = Some(<<50, 48, 50, 53, 45, 48, 55, 45, 48, 52>>)  \* "2025-07-04"
  /\ current_year = <<50, 48, 50, 53>>  \* "2025"

\* The full date in force after the first n lines: that of the last date
\* header among them, None if there is none.
RECURSIVE DateInForce(_)
DateInForce(n) ==
  IF n = 0 THEN None
  ELSE IF IsHeaderLine(n, FALSE) THEN Some(ScanOf(lines[n]).line)
  ELSE IF IsHeaderLine(n, TRUE)
  THEN Some(RunningYear(n - 1) \o <<45>> \o Val(ScanOf(lines[n]).date[1]))  \* "-"
  ELSE DateInForce(n - 1)

\* C11: at every moment of the run, each provisional entry's lesson date is
\* the full date of the last date header before its line, absent if there is
\* none, whatever lines have been read after it.
C11_DateOfLinesBefore ==
  \A i \in 1 .. Len(raw_entries) :
    raw_entries[i].lesson_date = DateInForce(raw_entries[i].source_line - 1)

\* An entry before any header and an entry after the header 2025-06-01, with
\* another header read after both: the first has no date, the second keeps
\* 2025-06-01.
C11_Witness ==
  /\ lines = <<<<42, 32, 12397, 12371, 32, 45, 32, 99, 97, 116>>, <<50, 48, 50, 53, 45, 48, 54, 45, 48, 49>>, <<42, 32, 12397, 12371, 32, 45, 32, 99, 97, 116>>, <<26085, 26412, 35486, 12398, 12524, 12483, 12473, 12531, 32, 55, 47, 52>>>>  \* "* ねこ - cat" "2025-06-01" "* ねこ - cat" "日本語のレッスン 7/4"
  /\ line_num = 4
  /\ current_date = Some(<<50, 48, 50, 53, 45, 48, 55, 45, 48, 52>>)  \* "2025-07-04"
  /\ Len(raw_entries) = 2
  /\ raw_entries[1].lesson_date = None
  /\ raw_entries[2].lesson_date = Some(<<50, 48, 50, 53, 45, 48, 54, 45, 48, 49>>)  \* "2025-06-01"

\* The text of line n after its bullet, as parse_entry_line splits it.
EntryText(n) ==
  LET unbulleted(l) == Strip(IF StartsWith(l, <<42>>) THEN LStrip(Tail(l)) ELSE l)  \* "*"
  IN  unbulleted(LStrip(ScanOf(lines[n]).line))

\* The Japanese part of entry line n: what precedes the translation.
JapanesePart(n) == SplitEntry(EntryText(n))[1]

\* A ruby annotation BASE（READING） occurs in text.
HasAnnotation(text) == NextFurigana(text, 1) # 0

\* C12: a provisional entry has a reading only if its Japanese part holds a
\* ruby annotation or its base text is entirely kana.
C12_ReadingOnlyIfDetermined ==
  \A i \in 1 .. Len(raw_entries) :
    ~IsNone(raw_entries[i].reading)
      => \/ HasAnnotation(JapanesePart(raw_entries[i].source_line))
         \/ is_all_hiragana_katakana(raw_entries[i].japanese)

\* text from position pos on, each annotation BASE（READING） replaced by
\* READING (reading TRUE) or by BASE (reading FALSE).
RECURSIVE Substituted(_, _, _)
Substituted(text, pos, reading) ==
  LET s == NextFurigana(text, pos)
      m == FuriganaMatchAt(text, s)
  IN  IF s = 0 THEN From(text, pos)
      ELSE Slice(text, pos, s - 1)
             \o (IF reading THEN Slice(text, m[1] + 1, m[2] - 1) ELSE Slice(text, s, m[1] - 1))
             \o Substituted(text, m[2] + 1, reading)

\* C13: when the reading assembled from the Japanese part of an entry line
\* still holds a kanji, extract_furigana returns no reading and the clean
\* text, which is the entry's base text; the entry then has a reading only by
\* the kana fallback.
C13_IncompleteFuriganaRejected ==
  \A i \in 1 .. Len(raw_entries) :
    LET jp == JapanesePart(raw_entries[i].source_line)
    IN  has_kanji(Substituted(jp, 1, TRUE))
          => /\ extract_furigana(jp) = <<Strip(Substituted(jp, 1, FALSE)), None>>
             /\ raw_entries[i].japanese = Strip(Substituted(jp, 1, FALSE))
             /\ \/ IsNone(raw_entries[i].reading)
                \/ is_all_hiragana_katakana(raw_entries[i].japanese)

\* The example of the specification: 猫（ねこ）が好き - I like cats.
C13_Witness ==
  /\ Len(lines) = 1
  /\ lines[1] = <<42, 32, 29483, 65288, 12397, 12371, 65289, 12364, 22909, 12365, 32, 45, 32, 73, 32, 108, 105, 107, 101, 32, 99, 97, 116, 115>>  \* "* 猫（ねこ）が好き - I like cats"
  /\ Len(raw_entries) = 1
  /\ Substituted(JapanesePart(1), 1, TRUE) = <<12397, 12371, 12364, 22909, 12365>>  \* "ねこが好き"
  /\ raw_entries[1].japanese = <<29483, 12364, 22909, 12365>>  \* "猫が好き"
  /\ raw_entries[1].reading = None
  /\ raw_entries[1].english = Some(<<73, 32, 108, 105, 107, 101, 32, 99, 97, 116, 115>>)  \* "I like cats"

\* C14: an entry line without annotation whose Japanese part is entirely kana
\* yields an entry whose base text is that part and whose reading is its base
\* text.
C14_KanaIsItsReading ==
  \A i \in 1 .. Len(raw_entries) :
    LET jp == JapanesePart(raw_entries[i].source_line)
    IN  (~HasAnnotation(jp) /\ is_all_hiragana_katakana(jp))
          => /\ raw_entries[i].japanese = jp
             /\ raw_entries[i].reading = Some(raw_entries[i].japanese)

\* The example of the specification: ねこ - cat.
C14_Witness ==
  /\ Len(lines) = 1
  /\ lines[1] = <<42, 32, 12397, 12371, 32, 45, 32, 99, 97, 116>>  \* "* ねこ - cat"
  /\ Len(raw_entries) = 1
  /\ raw_entries[1].japanese = <<12397, 12371>>  \* "ねこ"
  /\ raw_entries[1].reading = Some(<<12397, 12371>>)  \* "ねこ"
  /\ raw_entries[1].english = Some(<<99, 97, 116>>)  \* "cat"

\* C15: a provisional entry is a sub-entry exactly when the bullet of its
\* line is preceded by a space or a tab in the input.
C15_SubEntryFromIndentation ==
  \A i \in 1 .. Len(raw_entries) :
    raw_entries[i].is_sub_entry
      <=> At(lines[raw_entries[i].source_line], 1) \in {32, 9}

\* The number of characters of text other than the space and the full-width
\* space.
CharCount(text) == Cardinality({k \in 1 .. Len(text) : text[k] \notin {32, 12288}})  \* ' ' '　'

\* Some marker of the set occurs in text; text ends with some marker of it.
HasMarker(text, markers) == \E m \in markers : Contains(text, m)

EndsWithMarker(text, markers) == \E m \in markers : EndsWith(text, m)

PoliteMarkers == {<<12414, 12377>>, <<12391, 12377>>, <<12363>>}  \* "ます" "です" "か"

FinalMarkers == {<<12414, 12377>>, <<12414, 12375, 12383>>, <<12414, 12379, 12435>>, <<12391, 12377>>, <<12363>>, <<12424>>, <<12397>>}  \* "ます" "ました" "ません" "です" "か" "よ" "ね"

InfixMarkers == {<<12414, 12377>>, <<12391, 12377>>, <<12390>>, <<12383>>}  \* "ます" "です" "て" "た"

\* The kind the ordered decision procedure gives a non-empty base text.
KindOf(text) ==
  LET n == CharCount(text)
  IN  CASE n <= 5 /\ ~HasMarker(text, PoliteMarkers) -> "vocab"
        [] ~(n <= 5 /\ ~HasMarker(text, PoliteMarkers))
             /\ EndsWithMarker(text, FinalMarkers) /\ n > 12 -> "sentence"
        [] ~(n <= 5 /\ ~HasMarker(text, PoliteMarkers))
             /\ EndsWithMarker(text, FinalMarkers) /\ n <= 12 -> "phrase"
        [] ~(n <= 5 /\ ~HasMarker(text, PoliteMarkers))
             /\ ~EndsWithMarker(text, FinalMarkers)
             /\ HasMarker(text, InfixMarkers) -> "phrase"
        [] OTHER -> IF n <= 8 THEN "vocab" ELSE "phrase"

\* C16: every provisional entry has a non-empty base text and the kind the
\* decision procedure gives it, and no final record has the kind note.
C16_EntryKind ==
  /\ \A i \in 1 .. Len(raw_entries) :
       /\ raw_entries[i].japanese # <<>>
       /\ raw_entries[i].entry_type = KindOf(raw_entries[i].japanese)
  /\ \A k \in 1 .. Len(entries) : entries[k].entry_type \in {"vocab", "phrase", "sentence"}

\* The examples of the specification: a final marker at the end of 17
\* characters gives sentence, at the end of 10 characters phrase; both records
\* are in the final collection.
C16_Witness ==
  /\ Done
  /\ Len(raw_entries) = 2
  /\ raw_entries[1].japanese = <<12431, 12383, 12375, 12399, 12414, 12356, 12395, 12385, 12364, 12387, 12371, 12358, 12395, 12356, 12365, 12414, 12377>>  \* "わたしはまいにちがっこうにいきます"
  /\ raw_entries[1].entry_type = "sentence"
  /\ raw_entries[2].japanese = <<12392, 12375, 12423, 12363, 12435, 12395, 12356, 12365, 12414, 12377>>  \* "としょかんにいきます"
  /\ CharCount(raw_entries[2].japanese) = 10
  /\ raw_entries[2].entry_type = "phrase"
  /\ Len(entries) = 2

\* The levels with a grammar pattern or a vocabulary term that occurs in text.
LevelsFound(text) ==
  {row[2] : row \in {g \in Range(grammar_jlpt) : Contains(text, g[1])}}
    \cup {row[1] : row \in {v \in Range(vocab_jlpt) :
                              \E k \in 1 .. Len(v[2]) : Contains(text, v[2][k])}}

\* The levels from the easiest to the hardest, and the place of a level.
LevelScale == <<"N5", "N4", "N3", "N2", "N1">>

Difficulty(level) == CHOOSE k \in 1 .. Len(LevelScale) : LevelScale[k] = level

\* C17: a provisional entry's level is absent when no pattern and no term
\* occurs in its base text, and otherwise the hardest of the levels found.
C17_HardestLevel ==
  \A i \in 1 .. Len(raw_entries) :
    LET found == LevelsFound(raw_entries[i].japanese)
    IN  IF found = {} THEN IsNone(raw_entries[i].jlpt_level)
        ELSE \E l \in found :
               /\ raw_entries[i].jlpt_level = Some(l)
               /\ \A m \in found : Difficulty(m) <= Difficulty(l)

\* 複雑です holds markers of N5, N4 and N3 and gets N3; コンピューター holds
\* none and gets no level.
C17_Witness ==
  /\ Len(raw_entries) = 2
  /\ raw_entries[1].japanese = <<35079, 38609, 12391, 12377>>  \* "複雑です"
  /\ LevelsFound(raw_entries[1].japanese) = {"N5", "N4", "N3"}
  /\ raw_entries[1].jlpt_level = Some("N3")
  /\ raw_entries[2].japanese = <<12467, 12531, 12500, 12517, 12540, 12479, 12540>>  \* "コンピューター"
  /\ LevelsFound(raw_entries[2].japanese) = {}
  /\ raw_entries[2].jlpt_level = None

\* The topics with a keyword that occurs, whatever the case of the letters, in
\* the base text followed by a space and the translation.
TopicsMatched(e) ==
  LET text == Lower(e.japanese \o <<32>> \o (IF IsNone(e.english) THEN <<>> ELSE Val(e.english)))  \* " "
  IN  {row[1] : row \in {t \in Range(scenario_keywords) :
                           \E k \in 1 .. Len(t[2]) : Contains(text, Lower(t[2][k]))}}

\* C18: a provisional entry's topics are the matched topics, each once, and
\* general alone exactly when no topic matched.
C18_TopicsAreTheMatches ==
  \A i \in 1 .. Len(raw_entries) :
    LET matched == TopicsMatched(raw_entries[i])
        tags == raw_entries[i].tags
    IN  /\ Cardinality(Range(tags)) = Len(tags)
        /\ matched # {} => Range(tags) = matched
        /\ (tags = <<"general">>) <=> (matched = {})

\* 料理 - Train Station matches two topics by its base text and two by its
\* translation, in capitals; コンピューター matches none.
C18_Witness ==
  /\ Len(raw_entries) = 2
  /\ raw_entries[1].japanese = <<26009, 29702>>  \* "料理"
  /\ raw_entries[1].english = Some(<<84, 114, 97, 105, 110, 32, 83, 116, 97, 116, 105, 111, 110>>)  \* "Train Station"
  /\ Range(raw_entries[1].tags) = {"restaurant", "daily_life", "transportation", "weather"}
  /\ raw_entries[2].japanese = <<12467, 12531, 12500, 12517, 12540, 12479, 12540>>  \* "コンピューター"
  /\ TopicsMatched(raw_entries[2]) = {}
  /\ raw_entries[2].tags = <<"general">>

\* C19: the end-to-end run never ends in a fatal error, whatever the file.
C19_NoFatalError == pc # "error"

\* create_output has written the output.
Written == pc = "written" /\ ~IsNone(output)

\* A final record has a reading, a translation: present and not empty.
HasReading(e) == ~IsNone(e.reading) /\ Val(e.reading) # <<>>

HasTranslation(e) == ~IsNone(e.english) /\ Val(e.english) # <<>>

\* The number of final records with a reading, with a translation.
NumberWithReading == Cardinality({k \in 1 .. Len(entries) : HasReading(entries[k])})

NumberWithTranslation == Cardinality({k \in 1 .. Len(entries) : HasTranslation(entries[k])})

\* The distinct dates set by the date headers of the file.
HeaderDates == {DateInForce(n) : n \in 1 .. Len(lines)} \ {None}

\* The counts of the metadata summary are those of the final collection.
MetadataCounts(metadata) ==
  /\ metadata.total_entries = Len(entries)
  /\ metadata.entries_with_reading = NumberWithReading
  /\ metadata.entries_missing_reading = Len(entries) - NumberWithReading
  /\ metadata.entries_with_english = NumberWithTranslation
  /\ metadata.entries_missing_english = Len(entries) - NumberWithTranslation
  /\ metadata.lesson_count = Cardinality(HeaderDates)
  /\ metadata.created_date \in Today

\* C20 as stated: the metadata summary written with the records holds the
\* duplicates-merged count, equal to the deduplicator's, alongside the other
\* counts and the creation date.
C20_MetadataWithDuplicates ==
  Written =>
    /\ "duplicates_merged" \in DOMAIN Val(output).metadata
    /\ Val(output).metadata.duplicates_merged = stats.duplicates_merged
    /\ MetadataCounts(Val(output).metadata)

\* C20 amended: the metadata summary written with the records holds the total
\* entry count, the counts with and without reading and translation, the
\* lesson-date count and the creation date, with a version and a source label,
\* and no duplicates-merged count: that count is in the returned statistics
\* only.
C20_MetadataWithoutDuplicates ==
  Written =>
    /\ DOMAIN Val(output).metadata =
         {"version", "created_date", "total_entries", "entries_with_reading",
          "entries_with_english", "entries_missing_reading",
          "entries_missing_english", "lesson_count", "source"}
    /\ MetadataCounts(Val(output).metadata)
    /\ Val(output).entries = entries
    /\ stats.duplicates_merged = Len(raw_entries) - Len(entries)

\* The output of a file with a date header and two entries merged into one
\* record, which has a translation and no reading.
C20_Witness ==
  /\ Written
  /\ lines = <<<<50, 48, 50, 53, 45, 48, 54, 45, 48, 49>>, <<42, 32, 34892, 12367>>, <<42, 32, 34892, 12367, 32, 45, 32, 103, 111, 32, 98, 121, 32, 116, 114, 97, 105, 110>>>>  \* "2025-06-01" "* 行く" "* 行く - go by train"
  /\ stats.duplicates_merged = 1
  /\ Val(output).metadata.total_entries = 1
  /\ Val(output).metadata.entries_missing_reading = 1
  /\ Val(output).metadata.entries_with_english = 1
  /\ Val(output).metadata.lesson_count = 1


\* The final collection a run with string-hash seed h gives for the
\* provisional entries.
RunWithSeed(h) == AssignIds(deduplicate_entries(raw_entries, h)[1])

\* C21: two runs of the parser on the same input give the same final
\* collection, record for record and field for field, the order of the topics
\* and of the grammar patterns of the merged records included: the collection
\* a run has returned is the one every other run returns.
C21_Deterministic ==
  Done => \A h \in HashSeeds : entries = RunWithSeed(h)

\* Every reading, translation and level present in the records before is in
\* the records after, with the same value.
KeptFields(before, after) ==
  /\ Len(after) = Len(before)
  /\ \A i \in 1 .. Len(before) :
       /\ ~IsNone(before[i].reading) => after[i].reading = before[i].reading
       /\ ~IsNone(before[i].english) => after[i].english = before[i].english
       /\ ~IsNone(before[i].jlpt_level) => after[i].jlpt_level = before[i].jlpt_level

\* C22: a run of enrich_vocab or of enrich_jlpt, whatever the lookups return,
\* leaves every reading, translation and level that was present in a record
\* before the run with the same value; only absent fields may be filled.
C22_NeverOverwrites ==
  [][(~IsNone(output) /\ ~IsNone(output'))
       => KeptFields(Val(output).entries, Val(output').entries)]_vars

\* Both scripts have run on a file of two records: a level has been filled
\* in a record whose translation was present and is kept, and a reading has
\* been filled in a record whose level was present and is kept.
C22_Witness ==
  /\ ~IsNone(output)
  /\ {"vocab_enriched_date", "jlpt_enriched_date"} \subseteq DOMAIN Val(output).metadata
  /\ Len(entries) = 2
  /\ \E i \in 1 .. 2 : \E k \in 1 .. 2 :
       /\ IsNone(entries[i].jlpt_level) /\ ~IsNone(entries[i].english)
       /\ Val(output).entries[i].jlpt_level = Some("N4")
       /\ Val(output).entries[i].english = entries[i].english
       /\ IsNone(entries[k].reading) /\ ~IsNone(entries[k].jlpt_level)
       /\ Val(output).entries[k].reading = Some(<<12424, 12415>>)  \* "よみ"
       /\ Val(output).entries[k].jlpt_level = entries[k].jlpt_level

\* The positions in text of the dashes that are preceded by a close-bracket
\* or a Latin letter and followed by a space.
SplitDashes(text) ==
  {i \in 2 .. Len(text) :
     /\ text[i] = 45  \* '-'
     /\ (text[i - 1] = 65289 \/ IsAsciiLetter(text[i - 1]))  \* '）'
     /\ At(text, i + 1) = 32}  \* ' '

\* C23: an entry line without " - " that holds a dash preceded by a
\* close-bracket or a Latin letter and followed by a space is split at the
\* first such dash: the base text is that of the text before it and the
\* translation is the text after it.
C23_SplitAtFirstSuchDash ==
  \A k \in 1 .. Len(raw_entries) :
    LET split(text, i) ==
          /\ raw_entries[k].japanese = extract_furigana(Strip(Slice(text, 1, i - 1)))[1]
          /\ raw_entries[k].english = Some(Strip(From(text, i + 1)))
        rule2(text) ==
          (~Contains(text, <<32, 45, 32>>) /\ SplitDashes(text) # {})  \* " - "
            => split(text, Least(SplitDashes(text)))
    IN  rule2(EntryText(raw_entries[k].source_line))

\* The stripped text of the line the loop is at.
CurText == ScanOf(lines[line_num + 1]).line

\* 年 or ねん occurs in text.
HasYearUnit(text) == Contains(text, <<24180>>) \/ Contains(text, <<12397, 12435>>)  \* "年" "ねん"

\* text matches a date-header pattern.
MatchesHeader(text) == ~IsNone(parse_lesson_date(text)[1])

\* The full date a header line gives in the year y.
FullDate(text, y) ==
  IF parse_lesson_date(text)[2] THEN y \o <<45>> \o Val(parse_lesson_date(text)[1])  \* "-"
  ELSE Val(parse_lesson_date(text)[1])

\* C24: the iteration on a line with a 20xx token, a year unit and a match of
\* a date-header pattern sets current_year to the token and leaves the
\* current date, the lesson dates seen and the provisional entries as they
\* are; the iteration on a line with a 20xx token, a match of a date-header
\* pattern and no year unit sets the current date as a header does.
C24_YearMarkerOnly ==
  [][(pc = "parse" /\ line_num' = line_num + 1 /\ MatchesHeader(CurText)
        /\ ~IsNone(year_match(CurText)))
       => IF HasYearUnit(CurText)
          THEN /\ current_year' = Val(year_match(CurText))
               /\ current_date' = current_date
               /\ stats'.lesson_dates = stats.lesson_dates
               /\ raw_entries' = raw_entries
          ELSE /\ current_date' = Some(FullDate(CurText, current_year))
               /\ stats'.lesson_dates = stats.lesson_dates \cup {Val(current_date')}
               /\ raw_entries' = raw_entries]_vars

\* After the header 2025-06-01 and an entry, the line 2024年 日本語のレッスン 3/14
\* has been read: the year is 2024, the date still 2025-06-01, the only
\* lesson date seen, and no entry has been added.
C24_Witness ==
  /\ lines = <<<<50, 48, 50, 53, 45, 48, 54, 45, 48, 49>>, <<42, 32, 12397, 12371, 32, 45, 32, 99, 97, 116>>, <<50, 48, 50, 52, 24180, 32, 26085, 26412, 35486, 12398, 12524, 12483, 12473, 12531, 32, 51, 47, 49, 52>>>>  \* "2025-06-01" "* ねこ - cat" "2024年 日本語のレッスン 3/14"
  /\ line_num = 3
  /\ pc = "parse"
  /\ current_year = <<50, 48, 50, 52>>  \* "2024"
  /\ current_date = Some(<<50, 48, 50, 53, 45, 48, 54, 45, 48, 49>>)  \* "2025-06-01"
  /\ stats.lesson_dates = {<<50, 48, 50, 53, 45, 48, 54, 45, 48, 49>>}  \* "2025-06-01"
  /\ Len(raw_entries) = 1

\* C25: in every final record the topic general stands alone or not at all,
\* and a final record holds every topic other than general of every member of
\* its group.
C25_GeneralSuperseded ==
  Done =>
    \A i \in 1 .. Len(entries) :
      /\ "general" \in Range(entries[i].tags) => Range(entries[i].tags) = {"general"}
      /\ \A m \in Range(Members(entries[i].japanese)) :
           (Range(m.tags) \ {"general"}) \subseteq Range(entries[i].tags)

\* A member whose only topic is general and a member with two other topics
\* have been merged to a record with exactly these two, next to a record that
\* was not merged.
C25_Witness ==
  /\ Done
  /\ Len(entries) = 2
  /\ \E i \in 1 .. 2 :
       /\ \E m \in Range(Members(entries[i].japanese)) : m.tags = <<"general">>
       /\ \E m \in Range(Members(entries[i].japanese)) :
            /\ Len(m.tags) = 2
            /\ Range(entries[i].tags) = Range(m.tags)
       /\ Len(entries[i].tags) = 2
       /\ Len(Members(entries[3 - i].japanese)) = 1

\* The distinct lesson dates of the records of the final collection.
RecordDates == {e.lesson_date : e \in Range(entries)} \ {None}

\* C26 as stated: lesson_count is the number of distinct lesson dates that
\* occur among the records of the final collection.
C26_LessonCountOfRecords ==
  Written => Val(output).metadata.lesson_count = Cardinality(RecordDates)

\* C26 amended: lesson_count is the number of distinct dates set by the date
\* headers of the file, whether a record has the date or not; the dates of
\* the records are among them, so that lesson_count is not less than their
\* number.
C26_LessonCountOfHeaders ==
  Written =>
    /\ Val(output).metadata.lesson_count = Cardinality(HeaderDates)
    /\ RecordDates \subseteq HeaderDates
    /\ Val(output).metadata.lesson_count >= Cardinality(RecordDates)

\* Two headers, of which the first is followed by no entry: lesson_count is
\* 2 and the records have one date.
C26_Witness ==
  /\ Written
  /\ lines = <<<<50, 48, 50, 53, 45, 48, 54, 45, 48, 49>>, <<26085, 26412, 35486, 12398, 12524, 12483, 12473, 12531, 32, 51, 47, 49, 52>>, <<42, 32, 12397, 12371, 32, 45, 32, 99, 97, 116>>>>  \* "2025-06-01" "日本語のレッスン 3/14" "* ねこ - cat"
  /\ Val(output).metadata.lesson_count = 2
  /\ RecordDates = {Some(<<50, 48, 50, 53, 45, 48, 51, 45, 49, 52>>)}  \* "2025-03-14"

\* A year: 20 and two digits.
IsYear(s) ==
  /\ Len(s) = 4
  /\ s[1] = 50 /\ s[2] = 48  \* '2' '0'
  /\ IsDigit(s[3]) /\ IsDigit(s[4])

\* A full date: a year, a month and a day of two digits each, with dashes
\* between them.
IsFullDate(d) ==
  /\ Len(d) = 10
  /\ IsYear(Slice(d, 1, 4))
  /\ d[5] = 45 /\ IsDigit(d[6]) /\ IsDigit(d[7])  \* '-'
  /\ d[8] = 45 /\ IsDigit(d[9]) /\ IsDigit(d[10])  \* '-'

\* The dates present in the state: the current date and the lesson dates of
\* the provisional entries and of the final records.
PresentDates ==
  {Val(o) : o \in ({current_date}
                     \cup {e.lesson_date : e \in Range(raw_entries)}
                     \cup {e.lesson_date : e \in Range(entries)}) \ {None}}

\* C27: in every state of the run current_year is 20 and two digits, and
\* every date present, the current one, a provisional entry's or a final
\* record's, has the form 20dd-dd-dd (a digit being what the patterns of the
\* parser take for one) and is below the sort sentinel 9999-99-99.
C27_DatesWellFormed ==
  /\ IsYear(current_year)
  /\ \A d \in PresentDates : IsFullDate(d) /\ StrLess(d, <<57, 57, 57, 57, 45, 57, 57, 45, 57, 57>>)  \* "9999-99-99"
  /\ \A d \in stats.lesson_dates : IsFullDate(d)

\* The header 7/4 read in the year 2024 of a year marker has dated an entry
\* 2024-07-04, month and day padded with zeros.
C27_Witness ==
  /\ Done
  /\ lines = <<<<50, 48, 50, 52, 24180, 32, 26085, 26412, 35486, 12398, 12524, 12483, 12473, 12531, 32, 51, 47, 49, 52>>, <<26085, 26412, 35486, 12398, 12524, 12483, 12473, 12531, 32, 55, 47, 52, 32, 50, 48, 50, 54>>, <<42, 32, 12397, 12371, 32, 45, 32, 99, 97, 116>>>>  \* "2024年 日本語のレッスン 3/14" "日本語のレッスン 7/4 2026" "* ねこ - cat"
  /\ current_year = <<50, 48, 50, 52>>  \* "2024"
  /\ current_date = Some(<<50, 48, 50, 52, 45, 48, 55, 45, 48, 52>>)  \* "2024-07-04"
  /\ Len(entries) = 1
  /\ entries[1].lesson_date = Some(<<50, 48, 50, 52, 45, 48, 55, 45, 48, 52>>)  \* "2024-07-04"

\* The positions in text at which a 20xx token starts.
YearTokens(text) ==
  {i \in 1 .. Len(text) - 3 :
     /\ text[i] = 50 /\ text[i + 1] = 48  \* '2' '0'
     /\ IsDigit(text[i + 2]) /\ IsDigit(text[i + 3])}

\* The first 20xx token of a text that has one.
FirstYearToken(text) == Slice(text, Least(YearTokens(text)), Least(YearTokens(text)) + 3)

\* C28: the iteration on a line with a 20xx token and a year unit, whether the
\* line starts with a bullet or not, adds no provisional entry and changes
\* nothing but current_year, which it sets to the first 20xx token of the
\* line.
C28_YearMarkerShadowsEntry ==
  [][(pc = "parse" /\ line_num' = line_num + 1
        /\ YearTokens(CurText) # {} /\ HasYearUnit(CurText))
       => /\ current_year' = FirstYearToken(CurText)
          /\ UNCHANGED <<current_date, raw_entries, stats, entries, pc>>]_vars

\* The bulleted line with the tokens 2022 and 2024 and a year unit has been
\* read after an entry: there is no second entry and the year is 2022.
C28_Witness ==
  /\ lines = <<<<42, 32, 12397, 12371, 32, 45, 32, 99, 97, 116>>, <<42, 32, 50, 48, 50, 50, 24180, 12363, 12425, 50, 48, 50, 52, 24180, 12414, 12391, 32, 45, 32, 102, 114, 111, 109, 32, 50, 48, 50, 50, 32, 116, 111, 32, 50, 48, 50, 52>>>>  \* "* ねこ - cat" "* 2022年から2024年まで - from 2022 to 2024"
  /\ line_num = 2
  /\ pc = "parse"
  /\ Len(raw_entries) = 1
  /\ current_year = <<50, 48, 50, 50>>  \* "2022"

\* The place in the file order of the first provisional entry of base text j.
FirstOccurrence(j) ==
  Least({n \in 1 .. Len(raw_entries) : raw_entries[n].japanese = j})

\* C29: of two final records with the same lesson date, or both without one,
\* the one whose base text occurred first in the input comes first and has the
\* lesser id.
C29_StableOrder ==
  Done =>
    \A i \in 1 .. Len(entries) : \A k \in 1 .. Len(entries) :
      (i < k /\ entries[i].lesson_date = entries[k].lesson_date)
        => /\ FirstOccurrence(entries[i].japanese) < FirstOccurrence(entries[k].japanese)
           /\ StrLess(entries[i].id, entries[k].id)

\* 行く and 今日 before the header, ねこ after it: the sort has moved ねこ to the
\* front, and 行く and 今日, both without a date, follow in the order of the
\* input.
C29_Witness ==
  /\ Done
  /\ lines = <<<<42, 32, 34892, 12367>>, <<42, 32, 20170, 26085>>, <<50, 48, 50, 51, 45, 48, 49, 45, 49, 53>>, <<42, 32, 12397, 12371, 32, 45, 32, 99, 97, 116>>>>  \* "* 行く" "* 今日" "2023-01-15" "* ねこ - cat"
  /\ Len(entries) = 3
  /\ entries[1].japanese = <<12397, 12371>>  \* "ねこ"
  /\ entries[2].japanese = <<34892, 12367>> /\ IsNone(entries[2].lesson_date)  \* "行く"
  /\ entries[3].japanese = <<20170, 26085>> /\ IsNone(entries[3].lesson_date)  \* "今日"

\* C30: the provisional entries of one base text have the same kind, the same
\* grammar patterns and the same level, and the final record of their group
\* has that kind, that level and, as a set, those grammar patterns.
C30_AnnotationsOfBaseText ==
  /\ \A i \in 1 .. Len(raw_entries) : \A k \in 1 .. Len(raw_entries) :
       raw_entries[i].japanese = raw_entries[k].japanese
         => /\ raw_entries[i].entry_type = raw_entries[k].entry_type
            /\ raw_entries[i].grammar_patterns = raw_entries[k].grammar_patterns
            /\ raw_entries[i].jlpt_level = raw_entries[k].jlpt_level
  /\ Done =>
       \A i \in 1 .. Len(entries) : \A m \in Range(Members(entries[i].japanese)) :
         /\ entries[i].entry_type = m.entry_type
         /\ entries[i].jlpt_level = m.jlpt_level
         /\ Range(entries[i].grammar_patterns) = Range(m.grammar_patterns)

\* A group of two members that differ in reading and translation has been
\* merged to a phrase of level N3 with a grammar pattern.
C30_Witness ==
  /\ Done
  /\ Len(raw_entries) = 2
  /\ Len(entries) = 1
  /\ raw_entries[1].reading # raw_entries[2].reading
  /\ raw_entries[1].english # raw_entries[2].english
  /\ entries[1].entry_type = "phrase"
  /\ entries[1].jlpt_level = Some("N3")
  /\ entries[1].grammar_patterns # <<>>
====
